---------------------------- MODULE Spec2Model ----------------------------
(***************************************************************************)
(* A model of the pain-point analysis pipeline of reddit_startup_scraper:  *)
(* the provider clients (analyzers/*.py), the analyzer factory             *)
(* (analyzers/__init__.py), the confidence blend (scorers, main.py,        *)
(* web_ui.py) and the coordinator loop (main.py).                          *)
(*                                                                         *)
(* Seconds are counted in milliseconds and confidences in 1/10000 so that  *)
(* the arithmetic of the source is exact over the integers.                *)
(***************************************************************************)
EXTENDS Integers, Sequences, FiniteSets, TLC

(***************************************************************************)
(* Bounds of the model.                                                    *)
(***************************************************************************)
MaxRetries == 2
MaxPosts == 2

(***************************************************************************)
(* Text.  A Python str is a sequence of one-character strings.             *)
(***************************************************************************)
UpperChars == <<"A", "B", "C", "D", "E", "F", "G", "H", "I", "J", "K", "L", "M", "N", "O", "P", "Q", "R", "S", "T", "U", "V", "W", "X", "Y", "Z">>
LowerChars == <<"a", "b", "c", "d", "e", "f", "g", "h", "i", "j", "k", "l", "m", "n", "o", "p", "q", "r", "s", "t", "u", "v", "w", "x", "y", "z">>

\* str.lower() on one character
LowerChar(c) ==
    IF \E k \in 1..Len(UpperChars) : UpperChars[k] = c
    THEN LowerChars[CHOOSE k \in 1..Len(UpperChars) : UpperChars[k] = c]
    ELSE c

\* str.lower()
Lower(s) == [k \in 1..Len(s) |-> LowerChar(s[k])]

\* the Python test  t in s  on strings
Contains(s, t) ==
    \E k \in 0..(Len(s) - Len(t)) : SubSeq(s, k + 1, k + Len(t)) = t

(***************************************************************************)
(* Provider errors.  An exception is a record of its HTTP status (0 when   *)
(* the exception carries none) and of str(error).                          *)
(***************************************************************************)
Msg429 == <<"4", "2", "9", " ", "B", "u", "s", "y">>
MsgRateLimit == <<"R", "a", "t", "e", " ", "L", "i", "m", "i", "t">>
MsgTooMany == <<"T", "O", "O", " ", "M", "A", "N", "Y">>
MsgResource == <<"R", "e", "s", "o", "u", "r", "c", "e", " ", "h", "a", "s", " ", "g", "o", "n", "e">>
MsgQuota == <<"Q", "u", "o", "t", "a">>
MsgRateExceeded == <<"r", "a", "t", "e", " ", "e", "x", "c", "e", "e", "d", "e", "d">>
MsgSlowDown == <<"S", "l", "o", "w", " ", "d", "o", "w", "n">>
MsgTimeout == <<"T", "i", "m", "e", "o", "u", "t">>
MsgRateHyphen == <<"r", "a", "t", "e", "-", "l", "i", "m", "i", "t">>

HTTP_TOO_MANY_REQUESTS == 429

Err(status, msg) == [kind |-> "error", status |-> status, msg |-> msg]

Errors ==
    { Err(HTTP_TOO_MANY_REQUESTS, Msg429),
      Err(HTTP_TOO_MANY_REQUESTS, MsgSlowDown),
      Err(0, MsgRateLimit),
      Err(0, MsgTooMany),
      Err(0, MsgResource),
      Err(0, MsgQuota),
      Err(0, MsgRateExceeded),
      Err(0, MsgRateHyphen),
      Err(500, MsgTimeout) }

\* GeminiClient._is_rate_limit_error: rate_limit_indicators
rate_limit_indicators ==
    << <<"4", "2", "9">>,
       <<"r", "a", "t", "e", " ", "l", "i", "m", "i", "t">>,
       <<"t", "o", "o", " ", "m", "a", "n", "y">>,
       <<"r", "e", "s", "o", "u", "r", "c", "e", " ", "h", "a", "s">>,
       <<"q", "u", "o", "t", "a">>,
       <<"r", "a", "t", "e", " ", "e", "x", "c", "e", "e", "d", "e", "d">> >>

\* GeminiClient._is_rate_limit_error: only str(error).lower() is inspected
IsRateLimitError(error) ==
    LET error_str == Lower(error.msg)
    IN  \E k \in 1..Len(rate_limit_indicators) :
            Contains(error_str, rate_limit_indicators[k])

(***************************************************************************)
(* Provider responses, by the shape of the response text.                  *)
(***************************************************************************)
ResponseTexts == {"json", "fenced", "garbage", "empty"}
Resp(text) == [kind |-> "response", text |-> text]
Responses == { Resp(t) : t \in ResponseTexts }
Outcomes == Responses \cup Errors

NoOutcome == [kind |-> "none"]

\* _parse_response: json.loads, then once more with the code fences stripped
ParseResponse(text) ==
    CASE text = "json" -> "data"
      [] text = "fenced" -> "data"
      [] OTHER -> "None"

Vendors == {"gemini", "groq", "ollama", "huggingface"}

(***************************************************************************)
(* The provider client: analyze_posts_batch over posts 1..total, and for   *)
(* Gemini the retry loop of _analyze_with_retry inside each analyze_post.  *)
(***************************************************************************)
VARIABLES
    vendor,          \* which client class the analyzer is
    max_retries,     \* _rate_limit_config["max_retries"] / Config.max_retries
    total,           \* len(posts)
    idx,             \* the for loop's i (0-based): posts before it are done
    pc,              \* "loop", "retry", "collect", "done"; "idle" elsewhere
    attempt,         \* _analyze_with_retry: attempt
    calls,           \* provider calls made for the current post
    backoffs,        \* backoff sleeps made for the current post
    lastOutcome,     \* outcome of the last provider call of the current post
    allRateLimited,  \* every provider call of the current post was rate limited
    result,          \* what analyze_post returns: "None" or "analysis"
    analyses,        \* analyze_posts_batch: analyses (posts by number)
    outcomeOf,       \* per post: "unattempted", "ok", "failed"
    log              \* the client's requests and sleeps, in order

clientVars == <<vendor, max_retries, total, idx, pc, attempt, calls, backoffs,
                lastOutcome, allRateLimited, result, analyses, outcomeOf, log>>

(***************************************************************************)
(* GeminiClient._calculate_backoff_delay, called with attempt = 0, 1, ...  *)
(***************************************************************************)
VARIABLES
    initial_delay,       \* _rate_limit_config["initial_delay"], in ms
    max_delay,           \* _rate_limit_config["max_delay"], in ms
    backoff_multiplier,  \* _rate_limit_config["backoff_multiplier"], a ratio
    jitter,              \* _rate_limit_config["jitter"]
    b_attempt,           \* the attempt the next call is made with
    delay,               \* the delay the last call returned, a ratio of ms
    prev_delay           \* the delay the call before it returned

backoffVars == <<initial_delay, max_delay, backoff_multiplier, jitter,
                 b_attempt, delay, prev_delay>>

(***************************************************************************)
(* The analyzer factory: get_analyzer(config, provider).                   *)
(***************************************************************************)
VARIABLES
    env,          \* environment variables, installed packages, what the
                  \* providers' servers answer, and the config object
    requested,    \* get_analyzer's provider argument
    fpc,          \* "explicit", "auto", "done"; "idle" elsewhere
    available,    \* get_available_providers(config), once computed
    k,            \* position of the for loop in available
    constructed,  \* the create_analyzer calls made, in order
    analyzer      \* what get_analyzer returns

factoryVars == <<env, requested, fpc, available, k, constructed, analyzer>>

(***************************************************************************)
(* The coordinator: analyze_with_ai (main.py), the per-post analysis of    *)
(* the web worker (web_ui.py) and ConfidenceScorer.calculate_confidence.   *)
(***************************************************************************)
VARIABLES
    mode,            \* "cli", "web" or "scorer"; "idle" elsewhere
    has_analyzer,    \* whether get_analyzer returned an analyzer
    config_attrs,    \* which of ai_provider, is_hosted config_instance has
    posts_in,        \* processed_posts / posts / the scorer's arguments
    cpc,             \* "loop", "done"; "idle" elsewhere
    ci,              \* the for loop's i (0-based)
    analyzed_posts,  \* analyzed_posts / analyzed / the scorer's result
    outcomes         \* what the provider answered for each post so far

coordVars == <<mode, has_analyzer, config_attrs, posts_in, cpc, ci, analyzed_posts,
               outcomes>>

\* The web control panel (web_ui.py): the module's globals, the request
\* handlers in flight and the worker threads.
VARIABLES
    scraper_running,    \* the global scraper_running
    stop_scraper_flag,  \* stop_scraper_flag.is_set()
    scraper_logs,       \* the global scraper_logs
    workers,            \* the run_scraper_thread threads, by thread number
    start_checked,      \* /start handlers past the scraper_running test
    stop_sleeping,      \* /stop handlers inside time.sleep(1)
    n_requests,         \* requests received so far
    stop_mark           \* per worker: iterations begun when a stop was
                        \* requested while it was executing (<<>> if none)

webVars == <<scraper_running, stop_scraper_flag, scraper_logs, workers,
             start_checked, stop_sleeping, n_requests, stop_mark>>

\* One run of the command-line pipeline (main.py, run_scraper).
VARIABLES
    run_env,     \* the environment of the run: .env settings, the post source
    rpc,         \* where run_scraper is: "validate", "connect", "fetch",
                 \* "analyze", "exit"; "idle" elsewhere
    exit_code,   \* <<c>> once run_scraper has returned c
    exported     \* <<n>> once save_and_export was called with n posts

runVars == <<run_env, rpc, exit_code, exported>>

\* Decoding one provider response (_parse_response).
VARIABLES
    response_text,   \* the response text, a sequence of lexical pieces (or None),
    parsed,          \* what _parse_response did with it,
    ppc              \* "call" before the call, "done" after it; "idle" elsewhere

parseVars == <<response_text, parsed, ppc>>

\* The problem phrase detector (problem_phrase_detector.py).
VARIABLES
    title,           \* the title passed to score_problem_indicator,
    body,            \* the body passed to it,
    hash_seed,       \* the string hash seed of the running Python process,
    det_result,      \* what the last call returned (<<>> before it),
    det_prev,        \* the call before: <<[title, body, hash_seed, result]>>,
    dpc              \* "call", "scored"; "idle" elsewhere

detVars == <<title, body, hash_seed, det_result, det_prev, dpc>>

\* The detector's pre-filter (filter_posts, contains_problem_phrase).
VARIABLES
    custom_phrases,  \* the custom_phrases the detector was built with,
    filter_input,    \* the posts passed to filter_posts,
    filter_output,   \* <<the list it returned>> (<<>> before the call),
    probe,           \* <<[text, contains, matches]>> of the last text probed,
    flpc             \* "call", "filtered"; "idle" elsewhere

filterVars == <<custom_phrases, filter_input, filter_output, probe, flpc>>

\* Detection and categorization of one post (detect_problems_and_categorize, KeywordCategorizer).
VARIABLES
    cat_title,       \* post.title,
    cat_body,        \* post.body,
    cat_seed,        \* the string hash seed of the running Python process,
    problem_result,  \* <<what score_problem_indicator returned>>,
    category_result, \* <<the CategoryMatch categorize returned>>,
    details_result,  \* <<what categorize_with_details returned>>,
    cat_prev,        \* <<[title, body, category]>> of the run before,
    catpc            \* "detect", "categorize", "details", "done"; "idle" elsewhere

catVars == <<cat_title, cat_body, cat_seed, problem_result, category_result, details_result, cat_prev, catpc>>

\* One call of ConfidenceScorer.get_confidence_breakdown.
VARIABLES
    bd_args,         \* the arguments of the call,
    bd_breakdown,    \* <<the ConfidenceBreakdown returned>>,
    bdpc             \* "call", "returned"; "idle" elsewhere

breakdownVars == <<bd_args, bd_breakdown, bdpc>>

vars == <<clientVars, backoffVars, factoryVars, coordVars, webVars, runVars, parseVars, detVars, filterVars, catVars, breakdownVars>>

nonClientVars == <<backoffVars, factoryVars, coordVars, webVars, runVars, parseVars, detVars, filterVars, catVars, breakdownVars>>
nonBackoffVars == <<clientVars, factoryVars, coordVars, webVars, runVars, parseVars, detVars, filterVars, catVars, breakdownVars>>
nonFactoryVars == <<clientVars, backoffVars, coordVars, webVars, runVars, parseVars, detVars, filterVars, catVars, breakdownVars>>
nonCoordVars == <<clientVars, backoffVars, factoryVars, webVars, runVars, parseVars, detVars, filterVars, catVars, breakdownVars>>
nonWebVars == <<clientVars, backoffVars, factoryVars, coordVars, runVars, parseVars, detVars, filterVars, catVars, breakdownVars>>
nonRunVars == <<clientVars, backoffVars, factoryVars, coordVars, webVars, parseVars, detVars, filterVars, catVars, breakdownVars>>
nonParseVars == <<clientVars, backoffVars, factoryVars, coordVars, webVars, runVars, detVars, filterVars, catVars, breakdownVars>>
nonDetVars == <<clientVars, backoffVars, factoryVars, coordVars, webVars, runVars, parseVars, filterVars, catVars, breakdownVars>>
nonFilterVars == <<clientVars, backoffVars, factoryVars, coordVars, webVars, runVars, parseVars, detVars, catVars, breakdownVars>>
nonCatVars == <<clientVars, backoffVars, factoryVars, coordVars, webVars, runVars, parseVars, detVars, filterVars, breakdownVars>>
nonBreakdownVars == <<clientVars, backoffVars, factoryVars, coordVars, webVars, runVars, parseVars, detVars, filterVars, catVars>>

IdleClient ==
    /\ vendor = "none"
    /\ max_retries = 0
    /\ total = 0
    /\ idx = 0
    /\ pc = "idle"
    /\ attempt = 0
    /\ calls = 0
    /\ backoffs = 0
    /\ lastOutcome = NoOutcome
    /\ allRateLimited = TRUE
    /\ result = "None"
    /\ analyses = <<>>
    /\ outcomeOf = <<>>
    /\ log = <<>>

IdleBackoff ==
    /\ initial_delay = 0
    /\ max_delay = 0
    /\ backoff_multiplier = [n |-> 1, d |-> 1]
    /\ jitter = FALSE
    /\ b_attempt = 0
    /\ delay = [n |-> 0, d |-> 1]
    /\ prev_delay = [n |-> 0, d |-> 1]

IdleFactory ==
    /\ env = [config |-> "None"]
    /\ requested = "None"
    /\ fpc = "idle"
    /\ available = <<>>
    /\ k = 0
    /\ constructed = <<>>
    /\ analyzer = [provider |-> "None", model |-> "None"]

IdleCoord ==
    /\ mode = "idle"
    /\ has_analyzer = FALSE
    /\ config_attrs = {}
    /\ posts_in = <<>>
    /\ cpc = "idle"
    /\ ci = 0
    /\ analyzed_posts = <<>>
    /\ outcomes = <<>>

IdleWeb ==
    /\ scraper_running = FALSE
    /\ stop_scraper_flag = FALSE
    /\ scraper_logs = <<>>
    /\ workers = <<>>
    /\ start_checked = 0
    /\ stop_sleeping = 0
    /\ n_requests = 0
    /\ stop_mark = <<>>

IdleRun ==
    /\ run_env = [config |-> "None"]
    /\ rpc = "idle"
    /\ exit_code = <<>>
    /\ exported = <<>>

IdleParse ==
    /\ response_text = <<>>
    /\ parsed = "none yet"
    /\ ppc = "idle"

IdleDet ==
    /\ title = <<>>
    /\ body = <<>>
    /\ hash_seed = 0
    /\ det_result = <<>>
    /\ det_prev = <<>>
    /\ dpc = "idle"

IdleFilter ==
    /\ custom_phrases = <<>>
    /\ filter_input = <<>>
    /\ filter_output = <<>>
    /\ probe = <<>>
    /\ flpc = "idle"

IdleCat ==
    /\ cat_title = <<>>
    /\ cat_body = <<>>
    /\ cat_seed = 0
    /\ problem_result = <<>>
    /\ category_result = <<>>
    /\ details_result = <<>>
    /\ cat_prev = <<>>
    /\ catpc = "idle"

IdleBreakdown ==
    /\ bd_args = <<>>
    /\ bd_breakdown = <<>>
    /\ bdpc = "idle"

\* every part of the program other than the one a specification is about
\* is at rest
IdleButClient == IdleBackoff /\ IdleFactory /\ IdleCoord /\ IdleWeb /\ IdleRun /\ IdleParse /\ IdleDet /\ IdleFilter /\ IdleCat /\ IdleBreakdown
IdleButBackoff == IdleClient /\ IdleFactory /\ IdleCoord /\ IdleWeb /\ IdleRun /\ IdleParse /\ IdleDet /\ IdleFilter /\ IdleCat /\ IdleBreakdown
IdleButFactory == IdleClient /\ IdleBackoff /\ IdleCoord /\ IdleWeb /\ IdleRun /\ IdleParse /\ IdleDet /\ IdleFilter /\ IdleCat /\ IdleBreakdown
IdleButCoord == IdleClient /\ IdleBackoff /\ IdleFactory /\ IdleWeb /\ IdleRun /\ IdleParse /\ IdleDet /\ IdleFilter /\ IdleCat /\ IdleBreakdown
IdleButWeb == IdleClient /\ IdleBackoff /\ IdleFactory /\ IdleCoord /\ IdleRun /\ IdleParse /\ IdleDet /\ IdleFilter /\ IdleCat /\ IdleBreakdown
IdleButRun == IdleClient /\ IdleBackoff /\ IdleFactory /\ IdleCoord /\ IdleWeb /\ IdleParse /\ IdleDet /\ IdleFilter /\ IdleCat /\ IdleBreakdown
IdleButParse == IdleClient /\ IdleBackoff /\ IdleFactory /\ IdleCoord /\ IdleWeb /\ IdleRun /\ IdleDet /\ IdleFilter /\ IdleCat /\ IdleBreakdown
IdleButDet == IdleClient /\ IdleBackoff /\ IdleFactory /\ IdleCoord /\ IdleWeb /\ IdleRun /\ IdleParse /\ IdleFilter /\ IdleCat /\ IdleBreakdown
IdleButFilter == IdleClient /\ IdleBackoff /\ IdleFactory /\ IdleCoord /\ IdleWeb /\ IdleRun /\ IdleParse /\ IdleDet /\ IdleCat /\ IdleBreakdown
IdleButCat == IdleClient /\ IdleBackoff /\ IdleFactory /\ IdleCoord /\ IdleWeb /\ IdleRun /\ IdleParse /\ IdleDet /\ IdleFilter /\ IdleBreakdown
IdleButBreakdown == IdleClient /\ IdleBackoff /\ IdleFactory /\ IdleCoord /\ IdleWeb /\ IdleRun /\ IdleParse /\ IdleDet /\ IdleFilter /\ IdleCat

\* the spec's notion of a rate-limited error: HTTP 429, or an indicator
SpecRateLimited(o) ==
    /\ o.kind = "error"
    /\ (o.status = HTTP_TOO_MANY_REQUESTS \/ IsRateLimitError(o))

InitClient ==
    /\ vendor \in Vendors
    /\ max_retries \in -1..MaxRetries
    /\ total \in 0..MaxPosts
    /\ idx = 0
    /\ pc = "loop"
    /\ attempt = 0
    /\ calls = 0
    /\ backoffs = 0
    /\ lastOutcome = NoOutcome
    /\ allRateLimited = TRUE
    /\ result = "None"
    /\ analyses = <<>>
    /\ outcomeOf = [p \in 1..total |-> "unattempted"]
    /\ log = <<>>
    /\ IdleButClient

\* a mutant of the retry test: the budget is not consulted
ShouldRetryNoBudget(error, att) == IsRateLimitError(error)

\* _analyze_with_retry lines 366-367 (and _should_retry): retry a rate-limited
\* error while attempt < max_retries
ShouldRetry(error, att) ==
    IF att >= max_retries THEN FALSE
    ELSE IF IsRateLimitError(error) THEN TRUE
    ELSE FALSE

\* a mutant of the batch's append: a failed analysis is appended too
BatchAppendAlways(seq, post, analysis) == Append(seq, post)

\* analyze_posts_batch: if analysis: analyses.append(analysis)
BatchAppend(seq, post, analysis) ==
    IF analysis # "None" THEN Append(seq, post) ELSE seq

\* GeminiClient.analyze_posts_batch, one iteration up to the call of
\* analyze_post: the inter-request delay (i > 0), then _analyze_with_retry starts
GeminiBatchIteration ==
    /\ pc = "loop"
    /\ vendor = "gemini"
    /\ idx < total
    /\ log' = IF idx > 0 THEN Append(log, <<"delay", idx + 1>>) ELSE log
    /\ attempt' = 0
    /\ calls' = 0
    /\ backoffs' = 0
    /\ lastOutcome' = NoOutcome
    /\ allRateLimited' = TRUE
    /\ result' = "None"
    /\ pc' = "retry"
    /\ UNCHANGED <<vendor, max_retries, total, idx, analyses, outcomeOf>>
    /\ UNCHANGED nonClientVars

\* _analyze_with_retry: one pass of the while loop, with the provider's answer o
GeminiAttempt(o) ==
    /\ pc = "retry"
    /\ attempt <= max_retries
    /\ calls' = calls + 1
    /\ lastOutcome' = o
    /\ allRateLimited' = (allRateLimited /\ SpecRateLimited(o))
    /\ IF o.kind = "response"
       THEN /\ result' = (IF ParseResponse(o.text) = "None" THEN "None" ELSE "analysis")
            /\ pc' = "collect"
            /\ log' = Append(log, <<"call", idx + 1>>)
            /\ UNCHANGED <<attempt, backoffs>>
       ELSE IF ShouldRetry(o, attempt)
            THEN /\ log' = log \o << <<"call", idx + 1>>, <<"backoff", idx + 1>> >>
                 /\ backoffs' = backoffs + 1
                 /\ attempt' = attempt + 1
                 /\ pc' = "retry"
                 /\ UNCHANGED result
            ELSE /\ result' = "None"
                 /\ pc' = "collect"
                 /\ log' = Append(log, <<"call", idx + 1>>)
                 /\ UNCHANGED <<attempt, backoffs>>
    /\ UNCHANGED <<vendor, max_retries, total, idx, analyses, outcomeOf>>
    /\ UNCHANGED nonClientVars

\* _analyze_with_retry lines 387-391: the while condition is false
GeminiLoopExit ==
    /\ pc = "retry"
    /\ attempt > max_retries
    /\ result' = "None"
    /\ pc' = "collect"
    /\ UNCHANGED <<vendor, max_retries, total, idx, attempt, calls, backoffs,
                   lastOutcome, allRateLimited, analyses, outcomeOf, log>>
    /\ UNCHANGED nonClientVars

\* GeminiClient.analyze_posts_batch lines 527-531: append or skip, next post
GeminiBatchCollect ==
    /\ pc = "collect"
    /\ analyses' = BatchAppend(analyses, idx + 1, result)
    /\ outcomeOf' = [outcomeOf EXCEPT ![idx + 1] =
                        IF result = "None" THEN "failed" ELSE "ok"]
    /\ idx' = idx + 1
    /\ pc' = "loop"
    /\ UNCHANGED <<vendor, max_retries, total, attempt, calls, backoffs,
                   lastOutcome, allRateLimited, result, log>>
    /\ UNCHANGED nonClientVars

\* GroqAnalyzer / OllamaAnalyzer / HuggingFaceAnalyzer: analyze_posts_batch,
\* one whole iteration: analyze_post makes one provider call and returns None
\* on any exception, on an empty answer and on a parse failure; then the
\* fixed sleep unless this was the last post
SimpleBatchIteration(o) ==
    /\ pc = "loop"
    /\ vendor # "gemini"
    /\ idx < total
    /\ LET analysis == IF o.kind = "response" /\ ParseResponse(o.text) # "None"
                       THEN "analysis" ELSE "None"
       IN  /\ result' = analysis
           /\ analyses' = BatchAppend(analyses, idx + 1, analysis)
           /\ outcomeOf' = [outcomeOf EXCEPT ![idx + 1] =
                               IF analysis = "None" THEN "failed" ELSE "ok"]
    /\ calls' = 1
    /\ backoffs' = 0
    /\ attempt' = 0
    /\ lastOutcome' = o
    /\ allRateLimited' = SpecRateLimited(o)
    /\ log' = IF idx < total - 1
              THEN log \o << <<"call", idx + 1>>, <<"delay", idx + 2>> >>
              ELSE Append(log, <<"call", idx + 1>>)
    /\ idx' = idx + 1
    /\ pc' = "loop"
    /\ UNCHANGED <<vendor, max_retries, total>>
    /\ UNCHANGED nonClientVars

\* analyze_posts_batch: return analyses
BatchReturn ==
    /\ pc = "loop"
    /\ idx = total
    /\ pc' = "done"
    /\ UNCHANGED <<vendor, max_retries, total, idx, attempt, calls, backoffs,
                   lastOutcome, allRateLimited, result, analyses, outcomeOf, log>>
    /\ UNCHANGED nonClientVars

NextClient ==
    \/ GeminiBatchIteration
    \/ \E o \in Outcomes : GeminiAttempt(o)
    \/ GeminiLoopExit
    \/ GeminiBatchCollect
    \/ \E o \in Outcomes : SimpleBatchIteration(o)
    \/ BatchReturn

SpecClient == InitClient /\ [][NextClient]_vars

(***************************************************************************)
(* Properties of the provider client (checked under SpecClient).           *)
(***************************************************************************)
\* the analysis of the current post has returned to analyze_posts_batch
Returned == calls > 0 /\ pc # "retry"

\* C1: in GeminiClient._analyze_with_retry with max_retries = N >= 0, an
\* analysis makes at most N + 1 provider calls and at most N backoff sleeps,
\* and when every one of its provider calls failed with a rate-limited error
\* it returns failure (None).
C1_RetryBudget ==
    (vendor = "gemini" /\ max_retries >= 0) =>
        /\ calls <= max_retries + 1
        /\ backoffs <= max_retries
        /\ (Returned /\ allRateLimited) => result = "None"

\* C1 witness: the whole budget was used on rate-limited errors and the
\* analysis returned failure
C1_Witness ==
    /\ vendor = "gemini"
    /\ max_retries >= 1
    /\ pc = "collect"
    /\ allRateLimited
    /\ calls = max_retries + 1
    /\ backoffs = max_retries
    /\ result = "None"

\* C2: in every vendor's client, an analysis whose provider call fails with a
\* rate-limited error is retried after a backoff, up to max_retries times,
\* before failure is returned: when max_retries > 0 and the analysis has
\* returned on a rate-limited error, max_retries backoff sleeps were made.
C2_RetriedInEveryVendor ==
    (Returned /\ max_retries > 0 /\ lastOutcome.kind = "error"
              /\ IsRateLimitError(lastOutcome))
        => backoffs = max_retries

\* C3: in GeminiClient an error is treated as rate-limited (retried after a
\* backoff while the budget lasts) exactly when its status is HTTP 429 or its
\* message contains an indicator; any other error ends the analysis with
\* failure at once.
C3_Classification ==
    (vendor = "gemini" /\ calls > 0 /\ lastOutcome.kind = "error") =>
        /\ (pc = "retry") => SpecRateLimited(lastOutcome)
        /\ (pc = "collect" /\ SpecRateLimited(lastOutcome))
               => backoffs = max_retries
        /\ (pc = "collect") => result = "None"

\* the posts 1..total whose analysis succeeded, in input order
SuccessfulPosts ==
    LET Ok(p) == outcomeOf[p] = "ok"
    IN  SelectSeq([p \in 1..total |-> p], Ok)

\* C7: analyze_posts_batch issues its provider requests one post at a time in
\* input order with a delay between the requests of consecutive posts; a
\* failed post is skipped without ending the batch, so at the return every
\* post was attempted and the result is the subsequence of the successful
\* analyses in input order.
C7_BatchSequentialSkipsFailures ==
    /\ \A a, b \in 1..Len(log) :
           (a < b /\ log[a][1] = "call" /\ log[b][1] = "call") =>
               /\ log[a][2] <= log[b][2]
               /\ (log[a][2] < log[b][2]) =>
                      \E c \in (a + 1)..(b - 1) : log[c][1] = "delay"
    /\ (pc = "done") =>
           /\ idx = total
           /\ \A p \in 1..total : outcomeOf[p] # "unattempted"
           /\ analyses = SuccessfulPosts

\* C7 witness: a batch returned in which a failed post precedes a successful
\* one
C7_Witness ==
    /\ pc = "done"
    /\ total >= 2
    /\ outcomeOf[1] = "failed"
    /\ outcomeOf[2] = "ok"
    /\ analyses = <<2>> \o SubSeq(analyses, 2, Len(analyses))

(***************************************************************************)
(* Backoff delays.  A delay is a ratio n/d of milliseconds (d > 0), so     *)
(* that multiplier ** attempt and the 10% jitter are exact.                *)
(***************************************************************************)
MaxBackoffAttempt == 5

Ratio(n, d) == [n |-> n, d |-> d]
RLeq(a, b) == a.n * b.d <= b.n * a.d
RMin(a, b) == IF RLeq(a, b) THEN a ELSE b
RMax(a, b) == IF RLeq(a, b) THEN b ELSE a
RMul(a, b) == Ratio(a.n * b.n, a.d * b.d)

RECURSIVE Pow(_, _)
Pow(b, e) == IF e = 0 THEN 1 ELSE b * Pow(b, e - 1)

\* RATE_LIMIT_CONFIG, in ms
DEFAULT_INITIAL_DELAY == 2000
DEFAULT_MAX_DELAY == 60000
DEFAULT_BACKOFF_MULTIPLIER == 2
\* delay = max(0.1, delay), in ms
MIN_DELAY == 100
\* jitter_range = delay * 0.1, in percent
JITTER_PERCENT == 10

\* random.uniform(-jitter_range, jitter_range), as a percentage of delay
JitterDraws == {-JITTER_PERCENT, -5, 0, 5, JITTER_PERCENT}

\* _calculate_backoff_delay(attempt), with the jitter draw j when jitter is on
CalculateBackoffDelay(att, j) ==
    LET exp == RMul(Ratio(initial_delay, 1),
                    Ratio(Pow(backoff_multiplier.n, att),
                          Pow(backoff_multiplier.d, att)))
        capped == RMin(exp, Ratio(max_delay, 1))
        jittered == IF jitter
                    THEN RMul(capped, Ratio(100 + j, 100))
                    ELSE capped
    IN  RMax(Ratio(MIN_DELAY, 1), jittered)

InitBackoff ==
    /\ initial_delay \in {DEFAULT_INITIAL_DELAY, MIN_DELAY}
    /\ max_delay \in {DEFAULT_MAX_DELAY, 2 * DEFAULT_INITIAL_DELAY}
    /\ backoff_multiplier \in {Ratio(DEFAULT_BACKOFF_MULTIPLIER, 1), Ratio(1, 1),
                               Ratio(3, 2)}
    /\ jitter \in BOOLEAN
    /\ b_attempt = 0
    /\ delay = Ratio(0, 1)
    /\ prev_delay = Ratio(0, 1)
    /\ IdleButBackoff

\* one call _calculate_backoff_delay(b_attempt); the caller then retries with
\* attempt + 1
Backoff(j) ==
    /\ b_attempt <= MaxBackoffAttempt
    /\ prev_delay' = delay
    /\ delay' = CalculateBackoffDelay(b_attempt, j)
    /\ b_attempt' = b_attempt + 1
    /\ UNCHANGED <<initial_delay, max_delay, backoff_multiplier, jitter>>
    /\ UNCHANGED nonBackoffVars

NextBackoff == \E j \in JitterDraws : Backoff(j)

SpecBackoff == InitBackoff /\ [][NextBackoff]_vars

\* C4: with jitter disabled the delay of attempt + 1 is never below the delay
\* of attempt, and for every attempt and setting the returned delay never
\* exceeds max_delay.
C4_BackoffMonotoneAndCapped ==
    (b_attempt > 0) =>
        /\ (~jitter) => RLeq(prev_delay, delay)
        /\ RLeq(delay, Ratio(max_delay, 1))

(***************************************************************************)
(* The analyzer factory (analyzers/__init__.py) and the constructors of    *)
(* the four clients.  An analyzer is a record of its provider and of how   *)
(* its model was chosen: "discovered" (a candidate answered the probe),    *)
(* "configured" (taken from the configuration or the class's list without  *)
(* a probe) or "None" (the client holds no model).                         *)
(***************************************************************************)
Analyzer(p, m) == [provider |-> p, model |-> m]

\* get_analyzer / create_analyzer returning None
NoAnalyzer == [provider |-> "None", model |-> "None"]

\* class AIProvider
AIProviders == {"groq", "ollama", "huggingface", "gemini", "keyword"}

\* OllamaAnalyzer._list_models: _ollama_request("/api/tags") carries no data,
\* so json is an unbound local at json.loads and the request returns None
ListModels(e) == <<>>

\* create_groq_analyzer and GroqAnalyzer.__init__ / _select_model
CreateGroqAnalyzer(e) ==
    IF ~e.groq_key THEN NoAnalyzer
    ELSE IF ~e.groq_pkg THEN NoAnalyzer
    ELSE IF e.groq_model_cfg THEN Analyzer("groq", "configured")
    ELSE IF e.groq_probe THEN Analyzer("groq", "discovered")
    ELSE NoAnalyzer

\* create_ollama_analyzer and OllamaAnalyzer.__init__ / _detect_model
CreateOllamaAnalyzer(e) ==
    LET selected ==
            IF e.ollama_model # "" /\ e.ollama_model \in { ListModels(e)[n] : n \in 1..Len(ListModels(e)) }
            THEN "discovered"
            ELSE IF e.ollama_model = "recommended" THEN "configured"
            ELSE IF e.ollama_installed THEN "discovered"
            ELSE "None"
    IN  IF selected # "None" THEN Analyzer("ollama", selected) ELSE NoAnalyzer

\* create_huggingface_analyzer and HuggingFaceAnalyzer.__init__ /
\* _select_model: AVAILABLE_MODELS[0] unless a listed model is configured
CreateHuggingFaceAnalyzer(e) == Analyzer("huggingface", "configured")

\* GeminiClient.__init__ under create_analyzer's try: a config without
\* gemini_credentials_set and a missing key raise; otherwise the client is
\* returned, with model None when no package or no model is found
GeminiClient(e) ==
    IF e.config # "Config" THEN NoAnalyzer
    ELSE IF ~e.gemini_key THEN NoAnalyzer
    ELSE IF ~e.gemini_pkg THEN Analyzer("gemini", "None")
    ELSE IF e.gemini_probe THEN Analyzer("gemini", "discovered")
    ELSE Analyzer("gemini", "None")

\* AnalyzerFactory.create_analyzer
CreateAnalyzer(provider, e) ==
    CASE provider = "groq" -> CreateGroqAnalyzer(e)
      [] provider = "ollama" -> CreateOllamaAnalyzer(e)
      [] provider = "huggingface" -> CreateHuggingFaceAnalyzer(e)
      [] provider = "gemini" -> GeminiClient(e)
      [] provider = "keyword" -> NoAnalyzer
      [] OTHER -> NoAnalyzer

\* getattr(config, 'use_ollama', False) if config else False
UseOllama(e) == e.config = "Config" /\ e.use_ollama

\* a mutant of the preference order: the paid provider before the free one
GetAvailableProvidersGeminiFirst(e) ==
    (IF e.groq_key THEN <<"groq">> ELSE <<>>)
    \o (IF e.ollama_model # "" \/ UseOllama(e) THEN <<"ollama">> ELSE <<>>)
    \o (IF e.gemini_key THEN <<"gemini">> ELSE <<>>)
    \o <<"huggingface">>
    \o <<"keyword">>

\* AnalyzerFactory.get_available_providers
GetAvailableProviders(e) ==
    (IF e.groq_key THEN <<"groq">> ELSE <<>>)
    \o (IF e.ollama_model # "" \/ UseOllama(e) THEN <<"ollama">> ELSE <<>>)
    \o <<"huggingface">>
    \o (IF e.gemini_key THEN <<"gemini">> ELSE <<>>)
    \o <<"keyword">>

Environments ==
    [ config : {"Config", "MockConfig"},
      groq_key : BOOLEAN, groq_pkg : BOOLEAN,
      groq_model_cfg : BOOLEAN, groq_probe : BOOLEAN,
      ollama_model : {"", "recommended", "other"},
      use_ollama : BOOLEAN, ollama_installed : BOOLEAN,
      gemini_key : BOOLEAN, gemini_pkg : BOOLEAN, gemini_probe : BOOLEAN ]

\* the provider argument: None, an AIProvider or its name, or another string
ProviderArguments == AIProviders \cup {"None", "unknown"}

InitFactory ==
    /\ env \in Environments
    /\ requested \in ProviderArguments
    /\ fpc = "explicit"
    /\ available = <<>>
    /\ k = 0
    /\ constructed = <<>>
    /\ analyzer = NoAnalyzer
    /\ IdleButFactory

\* get_analyzer lines 114-131: the requested provider, if any, then the list
\* for the auto-selection
GetAnalyzerRequested ==
    /\ fpc = "explicit"
    /\ LET provider == IF requested \in AIProviders THEN requested ELSE "None"
           attempted == provider # "None" /\ provider # "keyword"
           made == IF attempted THEN CreateAnalyzer(provider, env) ELSE NoAnalyzer
       IN  /\ constructed' = IF attempted
                             THEN Append(constructed, <<"requested", provider>>)
                             ELSE constructed
           /\ IF made # NoAnalyzer
              THEN /\ analyzer' = made
                   /\ fpc' = "done"
                   /\ UNCHANGED <<available, k>>
              ELSE /\ available' = GetAvailableProviders(env)
                   /\ k' = 1
                   /\ fpc' = "auto"
                   /\ UNCHANGED analyzer
    /\ UNCHANGED <<env, requested>>
    /\ UNCHANGED nonFactoryVars

\* get_analyzer lines 133-143: one pass of the for loop, or its end
AutoSelectStep ==
    /\ fpc = "auto"
    /\ IF k > Len(available)
       THEN /\ analyzer' = NoAnalyzer
            /\ fpc' = "done"
            /\ UNCHANGED <<k, constructed>>
       ELSE LET prov == available[k]
            IN  IF prov = "keyword"
                THEN /\ k' = k + 1
                     /\ UNCHANGED <<analyzer, fpc, constructed>>
                ELSE /\ constructed' = Append(constructed, <<"auto", prov>>)
                     /\ IF CreateAnalyzer(prov, env) # NoAnalyzer
                        THEN /\ analyzer' = CreateAnalyzer(prov, env)
                             /\ fpc' = "done"
                             /\ UNCHANGED k
                        ELSE /\ k' = k + 1
                             /\ UNCHANGED <<analyzer, fpc>>
    /\ UNCHANGED <<env, requested, available>>
    /\ UNCHANGED nonFactoryVars

NextFactory ==
    \/ GetAnalyzerRequested
    \/ AutoSelectStep

SpecFactory == InitFactory /\ [][NextFactory]_vars

(***************************************************************************)
(* Properties of the factory (checked under SpecFactory).                  *)
(***************************************************************************)
\* the providers that need a credential, and whether it is present
HasCredentials(p, e) ==
    CASE p = "groq" -> e.groq_key
      [] p = "gemini" -> e.gemini_key
      [] OTHER -> TRUE

\* C8: a provider without credentials, or without any discoverable model, is
\* capability-absent: the factory never hands out a client that holds no
\* usable model.
C8_NoClientWithoutModel ==
    (fpc = "done" /\ analyzer # NoAnalyzer) =>
        /\ HasCredentials(analyzer.provider, env)
        /\ analyzer.model # "None"

\* the spec's preference order, without the no-AI sentinel
PreferenceOrder == <<"groq", "ollama", "huggingface", "gemini">>

\* the credential / endpoint presence checks
PresenceCheck(p) ==
    CASE p = "groq" -> env.groq_key
      [] p = "ollama" -> env.ollama_model # "" \/ UseOllama(env)
      [] p = "huggingface" -> TRUE
      [] p = "gemini" -> env.gemini_key

Candidates == SelectSeq(PreferenceOrder, PresenceCheck)

\* the providers the auto-selection has constructed, in order
AutoConstructed ==
    LET IsAuto(c) == c[1] = "auto"
        autos == SelectSeq(constructed, IsAuto)
    IN  [n \in 1..Len(autos) |-> autos[n][2]]

Succeeds(p) == CreateAnalyzer(p, env) # NoAnalyzer

\* C9: the auto-selection constructs the providers whose presence check
\* passed in the order Groq, Ollama, HuggingFace, Gemini, never the keyword
\* sentinel, stops at the first whose construction succeeds and returns it;
\* it returns None exactly when no construction succeeds.
C9_AutoSelectOrder ==
    LET autos == AutoConstructed
        n == Len(autos)
        byAuto == n > 0 /\ constructed[Len(constructed)][1] = "auto"
    IN  /\ \A c \in 1..Len(constructed) : constructed[c][2] # "keyword"
        /\ n <= Len(Candidates)
        /\ autos = SubSeq(Candidates, 1, n)
        /\ \A m \in 1..(n - 1) : ~Succeeds(autos[m])
        /\ (fpc = "done" /\ analyzer # NoAnalyzer /\ byAuto) =>
               /\ analyzer.provider = autos[n]
               /\ Succeeds(autos[n])
        /\ (fpc = "done" /\ (byAuto \/ constructed = <<>>)) =>
               (analyzer = NoAnalyzer <=>
                    \A m \in 1..Len(Candidates) : ~Succeeds(Candidates[m]))

\* C9 witness: nothing was requested, Groq's presence check passed but its
\* construction failed, and the next provider in the order, Ollama, was
\* constructed and returned
C9_Witness ==
    /\ fpc = "done"
    /\ requested = "None"
    /\ constructed = << <<"auto", "groq">>, <<"auto", "ollama">> >>
    /\ analyzer.provider = "ollama"

\* what the auto-selection returns in this environment
AutoSelection ==
    IF \E m \in 1..Len(Candidates) : Succeeds(Candidates[m])
    THEN CreateAnalyzer(
             Candidates[CHOOSE m \in 1..Len(Candidates) :
                            /\ Succeeds(Candidates[m])
                            /\ \A j \in 1..(m - 1) : ~Succeeds(Candidates[j])],
             env)
    ELSE NoAnalyzer

\* C10: a requested provider is attempted first and returned when its
\* construction succeeds; when it is capability-absent the result is that of
\* the auto-selection; and within one selection no provider's construction
\* is attempted more than once.
C10_RequestedThenAutoOnce ==
    /\ (fpc = "done" /\ requested \in AIProviders \ {"keyword"}) =>
           /\ constructed[1] = <<"requested", requested>>
           /\ IF Succeeds(requested)
              THEN analyzer = CreateAnalyzer(requested, env)
              ELSE analyzer = AutoSelection
    /\ \A a, b \in 1..Len(constructed) :
           (a # b) => constructed[a][2] # constructed[b][2]

(***************************************************************************)
(* Confidence arithmetic.  Scores are integers in units of 1/10000; the    *)
(* inputs below are multiples of 5, on which the 0.4 / 0.6 blend and the   *)
(* weighted average are exact.                                             *)
(***************************************************************************)
Min(a, b) == IF a <= b THEN a ELSE b

\* ConfidenceScorer.__init__: self.weights, in percent
weights ==
    [ keyword_match |-> 25, content_length |-> 20, category_strength |-> 20,
      engagement |-> 15, text_quality |-> 10, problem_clarity |-> 10 ]

FactorNames ==
    {"keyword_match", "content_length", "category_strength", "engagement",
     "text_quality", "problem_clarity"}

RECURSIVE SumOver(_, _)
SumOver(S, f) ==
    IF S = {} THEN 0
    ELSE LET x == CHOOSE y \in S : TRUE
         IN  f[x] + SumOver(S \ {x}, f)

\* ConfidenceScorer._weighted_average
WeightedAverage(factors) ==
    LET weighted_sum == SumOver(FactorNames,
                                [n \in FactorNames |-> factors[n] * weights[n]])
        total_weight == SumOver(FactorNames, weights)
    IN  IF total_weight = 0 THEN 5000 ELSE weighted_sum \div total_weight

\* calculate_confidence lines 74-110: the six factors of a call
Factors(a) ==
    [ keyword_match |->
          IF a.n_keywords > 0 THEN Min((a.n_keywords * 10000) \div 5, 10000)
          ELSE 3000,
      content_length |->
          IF a.content_length < 50 THEN 3000
          ELSE IF a.content_length < 200 THEN 6000
          ELSE IF a.content_length < 1000 THEN 8000
          ELSE 10000,
      category_strength |-> a.category_score,
      engagement |->
          Min(((a.upvotes + a.num_comments * 2) * 10000) \div 100, 10000),
      text_quality |-> a.text_quality,
      problem_clarity |->
          IF a.problem_score # <<>> THEN a.problem_score[1] ELSE 5000 ]

\* (our_confidence * 0.4) + (ai_confidence * 0.6)
Blend(our_confidence, ai_confidence) ==
    (our_confidence * 4 + ai_confidence * 6) \div 10

\* ConfidenceScorer.calculate_confidence
CalculateConfidence(a) ==
    IF a.ai_confidence # <<>>
    THEN Blend(WeightedAverage(Factors(a)), a.ai_confidence[1])
    ELSE WeightedAverage(Factors(a))

(***************************************************************************)
(* Posts and provider answers of the coordinator.                          *)
(***************************************************************************)
\* the keys analyze_with_ai copies from the analysis
ProviderFields ==
    {"startup_idea", "startup_type", "core_problem_summary", "target_audience",
     "estimated_complexity", "potential_market_size", "model_used",
     "analysis_timestamp"}

\* the keys the web worker copies from ai_result (besides confidence_score)
WebProviderFields ==
    {"startup_idea", "startup_type", "core_problem_summary", "target_audience",
     "tags"}

\* two records as detect_problems_and_categorize leaves them
KeywordPosts ==
    { [category |-> "Workflow Inefficiency", problem_score |-> 7000,
       confidence_score |-> 5000, quality_tier |-> "C - Average Quality"],
      [category |-> "General Business", problem_score |-> 0,
       confidence_score |-> 7330, quality_tier |-> "B - Good Quality"] }

\* the post's identity
WithUrl(post, u) == [url |-> u] @@ post

\* the confidence_score values of decoded provider answers; the last one is
\* the answer "confidence_score": 85
AIConfidences == {0, 7500, 9000, 10000, 850000}

\* what analyzer.analyze_post does for one post: a PostAnalysis whose
\* confidence_score is a number, one whose confidence_score is not a number
\* (a JSON string or null), None, or an exception
CoordOutcomes ==
    { [confidence |-> c, kind |-> "analysis"] : c \in AIConfidences }
    \cup { [kind |-> "analysis_nonnumeric"], [kind |-> "None"],
           [kind |-> "raise"] }

\* the arguments of one calculate_confidence call; an optional argument is
\* <<>> for None and <<v>> for the value v
ScorerArguments ==
    [ n_keywords : {0, 3}, content_length : {40, 300},
      category_score : {5000}, upvotes : {10}, num_comments : {5},
      text_quality : {7000}, problem_score : {<<>>, <<8000>>},
      ai_confidence : {<<>>, <<0>>, <<9000>>} ]

\* main.py lines 299-313: the body of the try up to the blend; a
\* confidence_score that is not a number raises at the blend, after the
\* fields were written
ApplyAnalysis(post, o) ==
    LET written == [f \in DOMAIN post \cup ProviderFields |->
                        IF f \in ProviderFields THEN "from provider"
                        ELSE post[f]]
    IN  IF o.kind = "analysis"
        THEN [written EXCEPT !["confidence_score"] = Blend(@, o.confidence)]
        ELSE IF o.kind = "analysis_nonnumeric" THEN written
        ELSE post

\* main.py lines 321-323: except Exception: analyzed_posts.append(post)
OnException(posts, post) == Append(posts, post)

\* web_ui.py line 988: the keyword-only confidence of the web worker
WEB_CONFIDENCE == 6000

\* web_ui.py lines 978-999: the keyword-only record of a post
WebAnalysis(post) ==
    [ url |-> post.url, startup_idea |-> "Opportunity from: title",
      startup_type |-> "Micro-SaaS", confidence_score |-> WEB_CONFIDENCE,
      category |-> "General Business" ]

\* web_ui.py lines 1002-1018: the AI analysis of a post
WebApplyAnalysis(analysis, o) ==
    LET written(confidence) ==
            [ url |-> analysis.url, category |-> analysis.category,
              startup_idea |-> "from provider",
              startup_type |-> "from provider",
              core_problem_summary |-> "from provider",
              target_audience |-> "from provider",
              confidence_score |-> confidence,
              tags |-> "from provider" ]
    IN  IF o.kind = "analysis" THEN written(o.confidence)
        ELSE IF o.kind = "analysis_nonnumeric" THEN written("not a number")
        ELSE analysis

\* the attributes of config_instance that analyze_with_ai reads and that
\* class Config defines
ConfigAttributes == {}

\* the objects passed as config_instance: a Config, and objects that define
\* ai_provider, or ai_provider and is_hosted, as well
ConfigObjects ==
    { ConfigAttributes, ConfigAttributes \cup {"ai_provider"},
      ConfigAttributes \cup {"ai_provider", "is_hosted"} }

PostLists(S) ==
    UNION { [1..n -> S] : n \in 0..MaxPosts }

InitCoord ==
    /\ mode \in {"cli", "web", "scorer"}
    /\ has_analyzer \in BOOLEAN
    /\ posts_in \in
           CASE mode = "cli" ->
                    { [n \in 1..Len(l) |-> WithUrl(l[n], n)] :
                          l \in PostLists(KeywordPosts) }
             [] mode = "web" ->
                    { [n \in 1..Len(l) |-> [url |-> n]] :
                          l \in PostLists({"post"}) \ {<<>>} }
             [] mode = "scorer" -> { <<a>> : a \in ScorerArguments }
    /\ (mode = "scorer") => has_analyzer
    /\ config_attrs \in
           IF mode = "cli" THEN ConfigObjects ELSE {ConfigAttributes}
    /\ cpc = "loop"
    /\ ci = 0
    /\ analyzed_posts = <<>>
    /\ outcomes = <<>>
    /\ IdleButCoord

\* analyze_with_ai lines 257-268: nothing to analyze, or no analyzer
ReturnKeywordOnly ==
    /\ mode = "cli"
    /\ cpc = "loop"
    /\ ci = 0
    /\ \/ posts_in = <<>>
       \/ "ai_provider" \in config_attrs /\ ~has_analyzer
    /\ analyzed_posts' = posts_in
    /\ cpc' = "done"
    /\ UNCHANGED <<mode, has_analyzer, config_attrs, posts_in, ci, outcomes>>
    /\ UNCHANGED nonCoordVars

\* analyze_with_ai has an analyzer and has printed its banner (lines 263-284)
LoopEntered ==
    /\ posts_in # <<>>
    /\ has_analyzer
    /\ {"ai_provider", "is_hosted"} \subseteq config_attrs

\* analyze_with_ai lines 263 and 281: reading an attribute that
\* config_instance does not have raises AttributeError out of the function
AnalyzeWithAiRaises ==
    /\ mode = "cli"
    /\ cpc = "loop"
    /\ ci = 0
    /\ posts_in # <<>>
    /\ \/ "ai_provider" \notin config_attrs
       \/ has_analyzer /\ "is_hosted" \notin config_attrs
    /\ cpc' = "raised"
    /\ UNCHANGED <<mode, has_analyzer, config_attrs, posts_in, ci,
                   analyzed_posts, outcomes>>
    /\ UNCHANGED nonCoordVars

\* analyze_with_ai lines 289-323: one pass of the for loop
AnalyzeWithAiIteration(o) ==
    /\ mode = "cli"
    /\ cpc = "loop"
    /\ LoopEntered
    /\ ci < Len(posts_in)
    /\ LET post == posts_in[ci + 1]
       IN  analyzed_posts' =
               IF o.kind \in {"raise", "analysis_nonnumeric"}
               THEN OnException(analyzed_posts, ApplyAnalysis(post, o))
               ELSE Append(analyzed_posts, ApplyAnalysis(post, o))
    /\ outcomes' = Append(outcomes, o)
    /\ ci' = ci + 1
    /\ UNCHANGED <<mode, has_analyzer, config_attrs, posts_in, cpc>>
    /\ UNCHANGED nonCoordVars

\* run_scraper_thread lines 978-1020: the analysis of one post
WorkerIteration(o) ==
    /\ mode = "web"
    /\ cpc = "loop"
    /\ ci < Len(posts_in)
    /\ (~has_analyzer) => o.kind = "None"
    /\ analyzed_posts' =
           Append(analyzed_posts,
                  IF has_analyzer
                  THEN WebApplyAnalysis(WebAnalysis(posts_in[ci + 1]), o)
                  ELSE WebAnalysis(posts_in[ci + 1]))
    /\ outcomes' = Append(outcomes, o)
    /\ ci' = ci + 1
    /\ UNCHANGED <<mode, has_analyzer, config_attrs, posts_in, cpc>>
    /\ UNCHANGED nonCoordVars

\* ConfidenceScorer.calculate_confidence, one call
ScorerCall ==
    /\ mode = "scorer"
    /\ cpc = "loop"
    /\ ci = 0
    /\ LET a == posts_in[1]
       IN  /\ analyzed_posts' = << [confidence_score |-> CalculateConfidence(a)] >>
           /\ outcomes' = << IF a.ai_confidence = <<>>
                             THEN [kind |-> "None"]
                             ELSE [confidence |-> a.ai_confidence[1],
                                   kind |-> "analysis"] >>
    /\ ci' = 1
    /\ UNCHANGED <<mode, has_analyzer, config_attrs, posts_in, cpc>>
    /\ UNCHANGED nonCoordVars

\* the loop is over: return analyzed_posts
CoordReturn ==
    /\ cpc = "loop"
    /\ ci = Len(posts_in)
    /\ (mode = "cli") => LoopEntered
    /\ cpc' = "done"
    /\ UNCHANGED <<mode, has_analyzer, config_attrs, posts_in, ci, analyzed_posts, outcomes>>
    /\ UNCHANGED nonCoordVars

NextCoord ==
    \/ ReturnKeywordOnly
    \/ AnalyzeWithAiRaises
    \/ \E o \in CoordOutcomes : AnalyzeWithAiIteration(o)
    \/ \E o \in CoordOutcomes : WorkerIteration(o)
    \/ ScorerCall
    \/ CoordReturn

SpecCoord == InitCoord /\ [][NextCoord]_vars

(***************************************************************************)
(* Properties of the coordinator (checked under SpecCoord).                *)
(***************************************************************************)
\* the locally computed confidence of post n
LocalConfidence(n) ==
    CASE mode = "cli" -> posts_in[n].confidence_score
      [] mode = "web" -> WEB_CONFIDENCE
      [] mode = "scorer" -> WeightedAverage(Factors(posts_in[n]))

\* C5: when a provider analysis carrying the confidence ai is obtained for a
\* post, the post's final confidence_score is 0.4 x local + 0.6 x ai, in
\* calculate_confidence, in analyze_with_ai and in the web worker alike; with
\* no provider result the confidence stays at its local value.
C5_BlendingLaw ==
    \A n \in 1..Len(outcomes) :
        /\ (outcomes[n].kind = "analysis") =>
               10 * analyzed_posts[n].confidence_score =
                   4 * LocalConfidence(n) + 6 * outcomes[n].confidence
        /\ (outcomes[n].kind \in {"None", "raise"}) =>
               analyzed_posts[n].confidence_score = LocalConfidence(n)

\* inside the for loop of analyze_with_ai the posts are appended once each,
\* in input order, and a post whose provider call returned None or raised is
\* appended as it came in
ContainmentInLoop ==
    (mode = "cli") =>
        /\ Len(analyzed_posts) <= Len(posts_in)
        /\ \A n \in 1..Len(analyzed_posts) :
               analyzed_posts[n].url = posts_in[n].url
        /\ (cpc = "loop") => Len(analyzed_posts) = ci
        /\ (cpc = "done") => Len(analyzed_posts) = Len(posts_in)
        /\ \A n \in 1..Len(outcomes) :
               (outcomes[n].kind \in {"None", "raise"}) =>
                   /\ analyzed_posts[n] = posts_in[n]
                   /\ DOMAIN analyzed_posts[n] \cap ProviderFields = {}

\* C6: whatever the provider does per post (success, None, exception), a call
\* of analyze_with_ai ends by returning every input post exactly once and in
\* input order, and a post whose provider call failed is retained unchanged:
\* its keyword-only fields as they were and no provider-sourced field.
C6_FailureContainment ==
    (mode = "cli") =>
        /\ ContainmentInLoop
        /\ cpc # "raised"


(***************************************************************************)
(* Keyword-only request (checked under SpecFactory).                       *)
(***************************************************************************)
\* C11: when the keyword-only provider is requested explicitly, get_analyzer
\* returns no analyzer and constructs no provider client (so that no provider
\* call can be made for any post of the run).
C11_KeywordOnlyRequest ==
    (requested = "keyword" /\ fpc = "done") =>
        /\ analyzer = NoAnalyzer
        /\ constructed = <<>>


(***************************************************************************)
(* The web control panel: /start, /stop and the worker threads             *)
(* (web_ui.py).  Flask serves every request in a thread of its own, so     *)
(* handlers and workers interleave at the steps below.                     *)
(***************************************************************************)
MaxWorkers == 2
MaxWebPosts == 3
MaxRequests == 3

WorkerIds == 1..MaxWorkers

\* a post object as the post source delivers it (RedditPost)
RawPost(n) ==
    [url |-> n, body |-> "listing", num_comments |-> 3, comments |-> <<>>]

\* what the Reddit JSON API answers to fetch_post_details
DetailResponses == {"failed", "details"}

\* RedditClient.fetch_post_details: the post object after the call
FetchPostDetails(post, d) ==
    IF d = "details"
    THEN [post EXCEPT !.body = "selftext", !.num_comments = 5,
                      !.comments = <<"comment">>]
    ELSE post

\* what analyzer.analyze_post does in one worker iteration; the other
\* outcomes of the call are those of WorkerIteration
WebOutcomes ==
    { [confidence |-> 9000, kind |-> "analysis"] }

\* log(msg) of thread w; the handlers log as thread 0.  The log keeps the
\* first and last entry of a thread, its errors and the stop notice; the
\* progress entries in between are left out.
LogEntry(w, msg) == [by |-> w, msg |-> msg]

\* a thread that does not exist yet
NoWorker ==
    [ pc |-> "unborn", total |-> 0, i |-> 0, posts |-> <<>>,
      analyzed |-> <<>>, cancelled |-> FALSE, mongodb |-> FALSE,
      handed |-> <<>> ]

\* the worker is between the start of its thread and the end of its finally
Executing(w) == workers[w].pc \notin {"unborn", "finished"}

Spawned == {w \in WorkerIds : workers[w].pc # "unborn"}

\* a variant of the append: the new record goes first
WorkerAppendFirst(analyzed, analysis) == <<analysis>> \o analyzed

\* web_ui.py line 1020: analyzed.append(analysis)
WorkerAppend(analyzed, analysis) == Append(analyzed, analysis)

InitWeb ==
    /\ scraper_running = FALSE
    /\ stop_scraper_flag = FALSE
    /\ scraper_logs = <<>>
    /\ workers = [w \in WorkerIds |-> NoWorker]
    /\ start_checked = 0
    /\ stop_sleeping = 0
    /\ n_requests = 0
    /\ stop_mark = [w \in WorkerIds |-> <<>>]
    /\ IdleButWeb

\* start_scraper lines 1095-1096: the scraper_running test
StartCheck ==
    /\ n_requests < MaxRequests
    /\ n_requests' = n_requests + 1
    /\ IF scraper_running
       THEN UNCHANGED start_checked
       ELSE /\ Cardinality(Spawned) + start_checked < MaxWorkers
            /\ start_checked' = start_checked + 1
    /\ UNCHANGED <<scraper_running, stop_scraper_flag, scraper_logs, workers,
                   stop_sleeping, stop_mark>>
    /\ UNCHANGED nonWebVars

\* start_scraper lines 1098-1116: reset the log, set the flags, start a thread
StartLaunch ==
    /\ start_checked > 0
    /\ start_checked' = start_checked - 1
    /\ scraper_logs' = << LogEntry(0, "Initializing scraper...") >>
    /\ scraper_running' = TRUE
    /\ stop_scraper_flag' = FALSE
    /\ LET w == Cardinality(Spawned) + 1
       IN  workers' = [workers EXCEPT ![w] = [NoWorker EXCEPT !.pc = "start"]]
    /\ UNCHANGED <<stop_sleeping, n_requests, stop_mark>>
    /\ UNCHANGED nonWebVars

\* stop_scraper lines 1124-1128: set the flag, log, go to sleep
StopSet ==
    /\ n_requests < MaxRequests
    /\ n_requests' = n_requests + 1
    /\ stop_scraper_flag' = TRUE
    /\ scraper_logs' = Append(scraper_logs, LogEntry(0, "Stopping scraper..."))
    /\ stop_sleeping' = stop_sleeping + 1
    /\ stop_mark' = [w \in WorkerIds |->
                        IF Executing(w) /\ workers[w].pc \in {"loop", "call"}
                           /\ stop_mark[w] = <<>>
                        THEN <<workers[w].i>>
                        ELSE stop_mark[w]]
    /\ UNCHANGED <<scraper_running, workers, start_checked>>
    /\ UNCHANGED nonWebVars

\* stop_scraper lines 1130-1131: after the sleep
StopFinish ==
    /\ stop_sleeping > 0
    /\ stop_sleeping' = stop_sleeping - 1
    /\ scraper_running' = FALSE
    /\ UNCHANGED <<stop_scraper_flag, scraper_logs, workers, start_checked,
                   n_requests, stop_mark>>
    /\ UNCHANGED nonWebVars

\* run_scraper_thread lines 880-883: reset the log, the first entries
WorkerBegin(w) ==
    /\ workers[w].pc = "start"
    /\ scraper_logs' = << LogEntry(w, "Starting scraper thread...") >>
    /\ workers' = [workers EXCEPT ![w].pc = "connect"]
    /\ UNCHANGED <<scraper_running, stop_scraper_flag, start_checked,
                   stop_sleeping, n_requests, stop_mark>>
    /\ UNCHANGED nonWebVars

\* run_scraper_thread lines 913-956: connect, fetch the posts, get the
\* analyzer; n is the number of posts fetched, -1 for no connection and -2
\* for an exception
WorkerFetch(w, n) ==
    /\ workers[w].pc = "connect"
    /\ IF n > 0
       THEN /\ workers' = [workers EXCEPT
                   ![w].pc = "loop", ![w].total = n,
                   ![w].posts = [j \in 1..n |-> RawPost(j)]]
            /\ UNCHANGED <<scraper_logs, scraper_running>>
       ELSE /\ workers' = [workers EXCEPT ![w].pc = "finally"]
            /\ scraper_logs' = Append(scraper_logs, LogEntry(w, "ERROR"))
            /\ IF n = -2 THEN UNCHANGED scraper_running
               ELSE scraper_running' = FALSE
    /\ UNCHANGED <<stop_scraper_flag, start_checked, stop_sleeping,
                   n_requests, stop_mark>>
    /\ UNCHANGED nonWebVars

\* run_scraper_thread lines 958-999: the head of the for loop (the stop
\* test), the detail fetch and the keyword-only record of the next post
WorkerLoopHead(w, d) ==
    /\ workers[w].pc = "loop"
    /\ IF workers[w].i = workers[w].total
       THEN /\ workers' = [workers EXCEPT ![w].pc = "save"]
            /\ UNCHANGED scraper_logs
       ELSE IF stop_scraper_flag
       THEN /\ workers' = [workers EXCEPT ![w].pc = "save",
                                          ![w].cancelled = TRUE]
            /\ scraper_logs' =
                   Append(scraper_logs,
                          LogEntry(w, "Stop requested, ending early"))
       ELSE /\ workers' = [workers EXCEPT
                   ![w].pc = "call", ![w].i = @ + 1,
                   ![w].posts[workers[w].i + 1] = FetchPostDetails(@, d)]
            /\ UNCHANGED scraper_logs
    /\ UNCHANGED <<scraper_running, stop_scraper_flag, start_checked,
                   stop_sleeping, n_requests, stop_mark>>
    /\ UNCHANGED nonWebVars

\* run_scraper_thread lines 1001-1024: the provider call returns, the record
\* is appended
WorkerIterationEnd(w, o) ==
    /\ workers[w].pc = "call"
    /\ LET post == workers[w].posts[workers[w].i]
           analysis == WebApplyAnalysis(WebAnalysis(post), o)
       IN  workers' = [workers EXCEPT
               ![w].pc = "loop",
               ![w].analyzed = WorkerAppend(@, analysis)]
    /\ UNCHANGED <<scraper_running, stop_scraper_flag, scraper_logs, start_checked,
                   stop_sleeping, n_requests, stop_mark>>
    /\ UNCHANGED nonWebVars

\* run_scraper_thread lines 1026-1052: hand the records to the storage
\* collaborator (save_scrape_results) when MongoDB is available and there is
\* at least one record.  mongodb_available is what is_mongodb_available()
\* answered at line 889; the worker uses it here only.
WorkerSave(w, mongodb_available) ==
    /\ workers[w].pc = "save"
    /\ workers' = [workers EXCEPT
           ![w].pc = "finally",
           ![w].mongodb = mongodb_available,
           ![w].handed = IF mongodb_available /\ workers[w].analyzed # <<>>
                         THEN <<workers[w].analyzed>>
                         ELSE <<>>]
    /\ UNCHANGED <<scraper_running, stop_scraper_flag, scraper_logs, start_checked,
                   stop_sleeping, n_requests, stop_mark>>
    /\ UNCHANGED nonWebVars

\* run_scraper_thread lines 1058-1061: finally, and the end of the thread,
\* where its local variables (posts, analyzed) cease to exist
WorkerFinally(w) ==
    /\ workers[w].pc = "finally"
    /\ scraper_running' = FALSE
    /\ stop_scraper_flag' = FALSE
    /\ scraper_logs' = Append(scraper_logs, LogEntry(w, "Thread finished."))
    /\ workers' = [workers EXCEPT ![w].pc = "finished",
                                  ![w].posts = <<>>, ![w].analyzed = <<>>]
    /\ UNCHANGED <<start_checked, stop_sleeping, n_requests, stop_mark>>
    /\ UNCHANGED nonWebVars

NextWeb ==
    \/ StartCheck
    \/ StartLaunch
    \/ StopSet
    \/ StopFinish
    \/ \E w \in WorkerIds : WorkerBegin(w)
    \/ \E w \in WorkerIds, n \in -2..MaxWebPosts : WorkerFetch(w, n)
    \/ \E w \in WorkerIds, d \in DetailResponses : WorkerLoopHead(w, d)
    \/ \E w \in WorkerIds, o \in WebOutcomes : WorkerIterationEnd(w, o)
    \/ \E w \in WorkerIds, m \in BOOLEAN : WorkerSave(w, m)
    \/ \E w \in WorkerIds : WorkerFinally(w)

SpecWeb == InitWeb /\ [][NextWeb]_vars


(***************************************************************************)
(* Properties of the web control panel (checked under SpecWeb).            *)
(***************************************************************************)
ExecutingWorkers == {w \in WorkerIds : Executing(w)}

\* C12: under every interleaving of /start, /stop and worker progress at most
\* one worker thread is executing, and a /start issued while a worker is
\* executing is rejected (no handler is past the running test then).
C12_SingleWriter ==
    /\ Cardinality(ExecutingWorkers) <= 1
    /\ (start_checked > 0) => ExecutingWorkers = {}

\* C13: once a stop is requested while a worker is running, the worker
\* begins no post iteration beyond the one in flight at that moment,
\* whatever /start and /stop requests come later (the stop is not lost).
C13_CooperativeCancellation ==
    \A w \in WorkerIds :
        (stop_mark[w] # <<>>) => workers[w].i = stop_mark[w][1]

\* C14: when a run is cancelled, every post whose iteration completed before
\* the stop flag was observed is in the worker's result list, in input
\* order, only posts not yet started are missing, and what is handed to the
\* storage collaborator is that list.
C14_PartialResultsOnCancellation ==
    \A w \in WorkerIds :
        (workers[w].cancelled /\ workers[w].pc \in {"save", "finally"}) =>
            /\ Len(workers[w].analyzed) = workers[w].i
            /\ workers[w].i < workers[w].total
            /\ \A j \in 1..workers[w].i :
                   workers[w].analyzed[j].url = workers[w].posts[j].url
            /\ (workers[w].pc = "finally") =>
                   /\ (workers[w].handed # <<>>) =>
                          workers[w].handed[1] = workers[w].analyzed
                   /\ (workers[w].mongodb /\ workers[w].analyzed # <<>>) =>
                          workers[w].handed # <<>>

\* C14 witness: a worker was cancelled after two of its three posts and has
\* handed the two records to the storage collaborator
C14_Witness ==
    \E w \in WorkerIds :
        /\ workers[w].cancelled
        /\ workers[w].pc = "finally"
        /\ workers[w].total = MaxWebPosts
        /\ workers[w].i = 2
        /\ workers[w].handed = <<workers[w].analyzed>>
        /\ Len(workers[w].analyzed) = 2

\* C17: no pipeline operation changes a field of an input post object: the
\* worker's post objects stay as the post source delivered them.
C17_RawPostImmutable ==
    \A w \in WorkerIds :
        \A j \in 1..Len(workers[w].posts) : workers[w].posts[j] = RawPost(j)


(***************************************************************************)
(* One run of the command-line pipeline: run_scraper (main.py).            *)
(***************************************************************************)
\* the .env settings and the post source of a run; n_processed is the number
\* of posts detect_problems_and_categorize keeps
RunEnvironments ==
    { e \in [ ai_fallback_enabled : BOOLEAN, gemini_key : BOOLEAN,
              groq_key : BOOLEAN, connected : BOOLEAN,
              n_posts : 0..MaxPosts, n_processed : 0..MaxPosts ] :
          e.n_processed <= e.n_posts }

\* Config.validate: is_valid
Validate(e) == ~(~e.ai_fallback_enabled /\ ~e.gemini_key)

InitRun ==
    /\ run_env \in RunEnvironments
    /\ rpc = "validate"
    /\ exit_code = <<>>
    /\ exported = <<>>
    /\ IdleButRun

\* run_scraper lines 419-435: Config(), the overrides, validate_config
RunValidate ==
    /\ rpc = "validate"
    /\ IF Validate(run_env)
       THEN rpc' = "connect" /\ UNCHANGED exit_code
       ELSE rpc' = "exit" /\ exit_code' = <<1>>
    /\ UNCHANGED <<run_env, exported>>
    /\ UNCHANGED nonRunVars

\* run_scraper lines 437-448: RedditClient, test_connection
RunConnect ==
    /\ rpc = "connect"
    /\ IF run_env.connected
       THEN rpc' = "fetch" /\ UNCHANGED exit_code
       ELSE rpc' = "exit" /\ exit_code' = <<1>>
    /\ UNCHANGED <<run_env, exported>>
    /\ UNCHANGED nonRunVars

\* run_scraper lines 450-466: fetch the posts, detect and categorize
RunFetch ==
    /\ rpc = "fetch"
    /\ IF run_env.n_processed = 0
       THEN rpc' = "exit" /\ exit_code' = <<0>>
       ELSE rpc' = "analyze" /\ UNCHANGED exit_code
    /\ UNCHANGED <<run_env, exported>>
    /\ UNCHANGED nonRunVars

\* run_scraper lines 468-483: analyze_with_ai with the Config object, then
\* save_and_export; the AttributeError of analyze_with_ai is caught at line
\* 480
RunAnalyze ==
    /\ rpc = "analyze"
    /\ rpc' = "exit"
    /\ IF {"ai_provider", "is_hosted"} \subseteq ConfigAttributes
       THEN exit_code' = <<0>> /\ exported' = <<run_env.n_processed>>
       ELSE exit_code' = <<1>> /\ UNCHANGED exported
    /\ UNCHANGED run_env
    /\ UNCHANGED nonRunVars

NextRun ==
    \/ RunValidate
    \/ RunConnect
    \/ RunFetch
    \/ RunAnalyze

SpecRun == InitRun /\ [][NextRun]_vars

\* the claim's two grounds for aborting a run: the post source yields no
\* posts at all, or every provider is unavailable (read here in the way most
\* favourable to the claim: no Groq key and no Gemini key) while the keyword
\* fallback is disabled
AbortGrounds(e) ==
    \/ ~e.connected
    \/ e.n_posts = 0
    \/ ~e.ai_fallback_enabled /\ ~e.groq_key /\ ~e.gemini_key

\* C15: a run is aborted (error exit, nothing exported) only on one of the
\* two grounds; in every other case, a missing Gemini key with another
\* provider available included, the run completes and exports the posts it
\* has.
C15_RunAbortPolicy ==
    (rpc = "exit") =>
        /\ (exit_code = <<1>>) => AbortGrounds(run_env)
        /\ (~AbortGrounds(run_env)) =>
               /\ exit_code = <<0>>
               /\ (run_env.n_processed > 0) =>
                      exported = <<run_env.n_processed>>


\* ==========================================================================
\* Decoding a provider response: GeminiClient._parse_response and
\* GroqAnalyzer._parse_response (the two bodies are the same).
\*
\* A response text is a sequence of lexical pieces:
\*   "doc"         one complete JSON document
\*   "fence_json"  the seven characters ```json
\*   "fence"       the three characters ```
\*   "prose"       free text that is not JSON, not blank, and has no ```
\*   "ws"          blanks and line ends
\* Groq's message.content is declared optional: the caller passes it on as
\* it is, so the text may also be None.
\* ==========================================================================
MaxPieces == 3

Pieces == {"doc", "fence_json", "fence", "prose", "ws"}

NoneText == <<"None">>

ResponseTextValues ==
    UNION { [1..n -> Pieces] : n \in 0..MaxPieces } \cup {NoneText}

RECURSIVE LStrip(_)
LStrip(t) ==
    IF t # <<>> /\ Head(t) = "ws" THEN LStrip(Tail(t)) ELSE t

RECURSIVE RStrip(_)
RStrip(t) ==
    IF t # <<>> /\ t[Len(t)] = "ws" THEN RStrip(SubSeq(t, 1, Len(t) - 1)) ELSE t

\* str.strip()
Strip(t) == RStrip(LStrip(t))

\* json.loads: blanks around the document are accepted, anything else beside
\* the one document is a JSONDecodeError, and a None argument a TypeError
JsonLoads(t) ==
    IF t = NoneText THEN "TypeError"
    ELSE IF Strip(t) = <<"doc">> THEN "data"
    ELSE "JSONDecodeError"

\* the fence stripping of the retry (lines 486-492): one leading ```json or
\* else one leading ```, then one trailing ```
StripFences(t) ==
    LET cleaned == Strip(t)
        headless == IF cleaned # <<>> /\ Head(cleaned) \in {"fence_json", "fence"}
                    THEN Tail(cleaned) ELSE cleaned
    IN  IF headless # <<>> /\ headless[Len(headless)] = "fence"
        THEN SubSeq(headless, 1, Len(headless) - 1) ELSE headless

\* _parse_response: only JSONDecodeError is caught, at both levels
parse_response(t) ==
    LET first == JsonLoads(t)
    IN  IF first # "JSONDecodeError" THEN first
        ELSE IF JsonLoads(Strip(StripFences(t))) = "data" THEN "data"
        ELSE "None"

InitParse ==
    /\ response_text \in ResponseTextValues
    /\ parsed = "none yet"
    /\ ppc = "call"
    /\ IdleButParse

ParseCall ==
    /\ ppc = "call"
    /\ parsed' = parse_response(response_text)
    /\ ppc' = "done"
    /\ UNCHANGED response_text
    /\ UNCHANGED nonParseVars

\* the next response arrives
ParseNext ==
    /\ ppc = "done"
    /\ response_text' \in ResponseTextValues
    /\ parsed' = "none yet"
    /\ ppc' = "call"
    /\ UNCHANGED nonParseVars

NextParse == ParseCall \/ ParseNext

SpecParse == InitParse /\ [][NextParse]_vars

\* --- the three forms of a response the specification names ---------------
DirectJson(t) == t # NoneText /\ Strip(t) = <<"doc">>

FencedJson(t) ==
    /\ t # NoneText
    /\ LET s == Strip(t)
       IN  /\ Len(s) >= 3
           /\ s[1] \in {"fence_json", "fence"}
           /\ s[Len(s)] = "fence"
           /\ Strip(SubSeq(s, 2, Len(s) - 1)) = <<"doc">>

EmbeddedJson(t) ==
    /\ t # NoneText
    /\ Cardinality({i \in 1..Len(t) : t[i] = "doc"}) = 1
    /\ \A i \in 1..Len(t) : t[i] \in {"doc", "prose", "ws"}
    /\ \E i \in 1..Len(t) : t[i] = "prose"

\* C18: a response that is direct JSON, JSON in markdown fences, or JSON
\* embedded in surrounding free text is decoded to the analysis data, and
\* _parse_response never raises.
C18_ResponseDecoding ==
    (ppc = "done") =>
        /\ parsed \in {"data", "None"}
        /\ (DirectJson(response_text) \/ FencedJson(response_text)
                \/ EmbeddedJson(response_text)) => parsed = "data"

\* JSON after a sentence of free text: the direct parse fails, there is no
\* fence to strip, the retry fails as well
C18_EmbeddedNotDecoded ==
    /\ ppc = "done"
    /\ response_text = <<"prose", "ws", "doc">>
    /\ parsed = "None"

\* what the decoder does do: direct and fenced JSON are decoded, and a text
\* (as opposed to None) never makes it raise
DecodesDirectAndFenced ==
    (ppc = "done" /\ response_text # NoneText) =>
        /\ parsed \in {"data", "None"}
        /\ (DirectJson(response_text) \/ FencedJson(response_text)) => parsed = "data"


\* ==========================================================================
\* The problem phrase detector: ProblemPhraseDetector.score_problem_indicator
\* and find_all_matches (src/detectors/problem_phrase_detector.py).
\* Scores are in thousandths, as round(normalized_score, 3) leaves them.
\* ==========================================================================

\* U+017F, a lower-case letter that str.lower() leaves alone and that
\* str.upper() turns into "S"
LongS == "LATIN SMALL LETTER LONG S"

\* str.upper() on one character
UpperChar(c) ==
    IF c = LongS THEN "S"
    ELSE IF \E i \in 1..Len(LowerChars) : LowerChars[i] = c
    THEN UpperChars[CHOOSE i \in 1..Len(LowerChars) : LowerChars[i] = c]
    ELSE c

\* str.upper()
Upper(s) == [i \in 1..Len(s) |-> UpperChar(s[i])]

PROBLEM_PHRASES ==
    << <<"i", " ", "h", "a", "t", "e", " ", "w", "h", "e", "n">>,
       <<"i", "t", "'", "s", " ", "s", "o", " ", "a", "n", "n", "o", "y", "i", "n", "g", " ", "t", "h", "a", "t">>,
       <<"f", "r", "u", "s", "t", "r", "a", "t", "e", "d", " ", "w", "i", "t", "h">>,
       <<"f", "r", "u", "s", "t", "r", "a", "t", "i", "n", "g", " ", "p", "a", "r", "t">>,
       <<"a", "n", "n", "o", "y", "i", "n", "g", " ", "p", "r", "o", "b", "l", "e", "m">>,
       <<"t", "h", "i", "s", " ", "i", "s", " ", "s", "o", " ", "f", "r", "u", "s", "t", "r", "a", "t", "i", "n", "g">>,
       <<"r", "e", "a", "l", "l", "y", " ", "b", "o", "t", "h", "e", "r", "s", " ", "m", "e">>,
       <<"d", "r", "i", "v", "e", "s", " ", "m", "e", " ", "c", "r", "a", "z", "y">>,
       <<"p", "e", "t", " ", "p", "e", "e", "v", "e">>,
       <<"w", "i", "s", "h", " ", "t", "h", "e", "r", "e", " ", "w", "a", "s">>,
       <<"w", "i", "s", "h", "e", "s", " ", "t", "h", "e", "r", "e", " ", "w", "a", "s">>,
       <<"w", "i", "s", "h", " ", "i", " ", "c", "o", "u", "l", "d">>,
       <<"i", " ", "w", "i", "s", "h">>,
       <<"s", "o", "m", "e", "o", "n", "e", " ", "s", "h", "o", "u", "l", "d", " ", "m", "a", "k", "e">>,
       <<"n", "e", "e", "d", " ", "a", " ", "b", "e", "t", "t", "e", "r", " ", "w", "a", "y">>,
       <<"h", "o", "w", " ", "c", "a", "n", " ", "i", " ", "a", "u", "t", "o", "m", "a", "t", "e">>,
       <<"t", "i", "r", "e", "d", " ", "o", "f", " ", "d", "o", "i", "n", "g">>,
       <<"w", "a", "s", "t", "e", " ", "s", "o", " ", "m", "u", "c", "h", " ", "t", "i", "m", "e">>,
       <<"m", "a", "n", "u", "a", "l", " ", "p", "r", "o", "c", "e", "s", "s">>,
       <<"k", "e", "e", "p", " ", "f", "o", "r", "g", "e", "t", "t", "i", "n", "g">>,
       <<"s", "o", " ", "i", "n", "e", "f", "f", "i", "c", "i", "e", "n", "t">>,
       <<"t", "o", "o", " ", "c", "o", "m", "p", "l", "i", "c", "a", "t", "e", "d">>,
       <<"o", "v", "e", "r", "w", "h", "e", "l", "m", "e", "d", " ", "b", "y">>,
       <<"b", "o", "t", "t", "l", "e", "n", "e", "c", "k">>,
       <<"i", "s", " ", "t", "h", "e", "r", "e", " ", "a", "n", " ", "a", "p", "p", " ", "f", "o", "r">>,
       <<"l", "o", "o", "k", "i", "n", "g", " ", "f", "o", "r", " ", "a", " ", "w", "a", "y", " ", "t", "o">>,
       <<"l", "o", "o", "k", "i", "n", "g", " ", "f", "o", "r", " ", "s", "o", "f", "t", "w", "a", "r", "e">>,
       <<"a", "n", "y", "o", "n", "e", " ", "k", "n", "o", "w", " ", "o", "f">>,
       <<"c", "a", "n", " ", "a", "n", "y", "o", "n", "e", " ", "r", "e", "c", "o", "m", "m", "e", "n", "d">>,
       <<"n", "e", "e", "d", " ", "h", "e", "l", "p", " ", "w", "i", "t", "h">>,
       <<"h", "o", "w", " ", "d", "o", " ", "y", "o", "u", " ", "h", "a", "n", "d", "l", "e">>,
       <<"d", "o", "e", "s", " ", "a", "n", "y", "o", "n", "e", " ", "e", "l", "s", "e">>,
       <<"p", "r", "o", "b", "l", "e", "m", " ", "w", "i", "t", "h">>,
       <<"p", "a", "i", "n", " ", "p", "o", "i", "n", "t">>,
       <<"s", "t", "r", "u", "g", "g", "l", "i", "n", "g", " ", "w", "i", "t", "h">>,
       <<"d", "i", "f", "f", "i", "c", "u", "l", "t", " ", "t", "o", " ", "m", "a", "n", "a", "g", "e">>,
       <<"h", "a", "r", "d", " ", "t", "o", " ", "m", "a", "n", "a", "g", "e">>,
       <<"c", "h", "a", "l", "l", "e", "n", "g", "e", " ", "w", "i", "t", "h">>,
       <<"i", "s", "s", "u", "e", " ", "w", "i", "t", "h">> >>

high_value_phrases ==
    << <<"i", " ", "h", "a", "t", "e", " ", "w", "h", "e", "n">>,
       <<"f", "r", "u", "s", "t", "r", "a", "t", "e", "d", " ", "w", "i", "t", "h">>,
       <<"t", "i", "r", "e", "d", " ", "o", "f", " ", "d", "o", "i", "n", "g">>,
       <<"w", "a", "s", "t", "e", " ", "s", "o", " ", "m", "u", "c", "h", " ", "t", "i", "m", "e">>,
       <<"m", "a", "n", "u", "a", "l", " ", "p", "r", "o", "c", "e", "s", "s">>,
       <<"w", "i", "s", "h", " ", "t", "h", "e", "r", "e", " ", "w", "a", "s">>,
       <<"i", "s", " ", "t", "h", "e", "r", "e", " ", "a", "n", " ", "a", "p", "p", " ", "f", "o", "r">>,
       <<"n", "e", "e", "d", " ", "a", " ", "b", "e", "t", "t", "e", "r", " ", "w", "a", "y">>,
       <<"s", "o", " ", "i", "n", "e", "f", "f", "i", "c", "i", "e", "n", "t">> >>

Titles ==
    { <<>>,
      <<"B", "e", "s", "t", " ", "l", "a", "p", "t", "o", "p", " ", "f", "o", "r", " ", "c", "o", "d", "i", "n", "g">>,
      <<"I">>,
      <<"I", " ", "w", "i", "s", "h", " ", "m", "y", " ", "i", "n", "v", "o", "i", "c", "e", "s", " ", "w", "e", "r", "e", " ", "e", "a", "s", "i", "e", "r">>,
      <<LongS, "o", " ", "i", "n", "e", "f", "f", "i", "c", "i", "e", "n", "t">>,
      <<"I", " ", "h", "a", "t", "e", " ", "w", "h", "e", "n", " ", "a", " ", "m", "a", "n", "u", "a", "l", " ", "p", "r", "o", "c", "e", "s", "s", " ", "i", "s", " ", "s", "o", " ", "i", "n", "e", "f", "f", "i", "c", "i", "e", "n", "t">> }

Bodies ==
    { <<>>,
      <<"w", "i", "s", "h", " ", "t", "h", "e", "r", "e", " ", "w", "a", "s", " ", "a", " ", "t", "o", "o", "l">>,
      <<"w", "i", "s", "h">>,
      <<"T", "i", "r", "e", "d", " ", "o", "f", " ", "d", "o", "i", "n", "g", " ", "i", "t", " ", "b", "y", " ", "h", "a", "n", "d", ",", " ", "n", "e", "e", "d", " ", "a", " ", "b", "e", "t", "t", "e", "r", " ", "w", "a", "y">> }

\* the string hash seeds a Python process may be started with
\* (PYTHONHASHSEED is random unless the environment fixes it)
HashSeeds == {0, 1, 2}

HashModulus == 43

\* hash(phrase) in a process started with the given seed
StrHash(phrase, seed) ==
    LET index == CHOOSE i \in 1..Len(PROBLEM_PHRASES) : PROBLEM_PHRASES[i] = phrase
    IN  (index * (seed + 1)) % HashModulus

\* the elements of a finite set in ascending order of their keys
RECURSIVE SortedBy(_, _)
SortedBy(S, key) ==
    IF S = {} THEN <<>>
    ELSE LET x == CHOOSE x \in S : \A y \in S : key[x] <= key[y]
         IN  <<x>> \o SortedBy(S \ {x}, key)

\* list(set(...)): a set of strings is iterated in the order of its hashes
ListOfSet(S, seed) == SortedBy(S, [p \in S |-> StrHash(p, seed)])

\* find_all_matches: for each phrase in list order, every position at which
\* the lowered phrase starts in the lowered text (the context field of a
\* match is left out)
FindAllMatchesOf(phrases, text) ==
    LET text_lower == Lower(text)
        starts_at(phrase, at) ==
            \A j \in 1..Len(phrase) : text_lower[at + j] = LowerChar(phrase[j])
        occurrences(phrase) ==
            { at \in 0..(Len(text) - Len(phrase)) : starts_at(phrase, at) }
        found(phrase) ==
            LET places == SortedBy(occurrences(phrase), [at \in occurrences(phrase) |-> at])
            IN  [i \in 1..Len(places) |-> [phrase |-> phrase, position |-> places[i]]]
        upto[n \in 0..Len(phrases)] ==
            IF n = 0 THEN <<>> ELSE upto[n - 1] \o found(phrases[n])
    IN  upto[Len(phrases)]

\* find_all_matches of a detector built without custom phrases
FindAllMatches(text) == FindAllMatchesOf(PROBLEM_PHRASES, text)

\* the title alone, lowered: a mutation of the scanned text
FullTextTitleOnly(t, b) == Lower(t)

\* f"{title} {body}".lower()
FullText(t, b) == Lower(t \o <<" ">> \o b)

\* n / d cut off after the third decimal: a mutation of the rounding
RoundMilliDown(n, d) == (1000 * n) \div d

\* round(n / d, 3) in thousandths (ties to even, as round() does on the
\* exactly representable ties that occur here)
RoundMilli(n, d) ==
    LET f == (1000 * n) \div d
        r == (1000 * n) % d
    IN  IF 2 * r > d \/ (2 * r = d /\ f % 2 = 1) THEN f + 1 ELSE f

\* the dictionary returned when nothing matches (lines 162-169)
NoProblem ==
    [has_problem |-> FALSE, score |-> 0, phrase_count |-> 0,
     phrases_found |-> <<>>, top_phrases |-> <<>>, severity |-> "none",
     all_matches |-> <<>>]

\* score_problem_indicator in a process with the given hash seed
ScoreProblemIndicator(t, b, seed) ==
    LET matches == FindAllMatches(FullText(t, b))
        phrases_found == ListOfSet({matches[i].phrase : i \in 1..Len(matches)}, seed)
        is_high(p) == \E i \in 1..Len(high_value_phrases) : high_value_phrases[i] = p
        top_phrases == SelectSeq(phrases_found, is_high)
        score == 2 * Len(top_phrases) + (Len(phrases_found) - Len(top_phrases))
        max_possible == Len(high_value_phrases) + (Len(phrases_found) - Len(top_phrases))
        \* min(score / max_possible, 1.0), as the ratio num / max_possible
        num == IF score > max_possible THEN max_possible ELSE score
        severity == IF 10 * num >= 7 * max_possible THEN "high"
                    ELSE IF 10 * num >= 4 * max_possible THEN "medium"
                    ELSE "low"
    IN  IF matches = <<>> THEN NoProblem
        ELSE [has_problem |-> TRUE,
              score |-> IF max_possible > 0 THEN RoundMilli(num, max_possible) ELSE 500,
              phrase_count |-> Len(phrases_found),
              phrases_found |-> phrases_found,
              top_phrases |-> SubSeq(top_phrases, 1, Min(3, Len(top_phrases))),
              severity |-> severity,
              all_matches |-> matches]

DetCall(t, b, seed, returned) ==
    [title |-> t, body |-> b, hash_seed |-> seed, result |-> returned]

InitDet ==
    /\ title \in Titles
    /\ body \in Bodies
    /\ hash_seed \in HashSeeds
    /\ det_result = <<>>
    /\ det_prev = <<>>
    /\ dpc = "call"
    /\ IdleButDet

\* detector.score_problem_indicator(title, body)
DetScore ==
    /\ dpc = "call"
    /\ det_result' = <<ScoreProblemIndicator(title, body, hash_seed)>>
    /\ dpc' = "scored"
    /\ UNCHANGED <<title, body, hash_seed, det_prev>>
    /\ UNCHANGED nonDetVars

\* the same post is scored again, spelled as before or in another letter
\* case, in the same process or in a later run of the program
DetAgain(spelling, seed) ==
    /\ dpc = "scored"
    /\ det_prev = <<>>
    /\ det_prev' = <<DetCall(title, body, hash_seed, det_result[1])>>
    /\ title' = CASE spelling = "same" -> title
                  [] spelling = "upper" -> Upper(title)
                  [] spelling = "lower" -> Lower(title)
    /\ body' = CASE spelling = "same" -> body
                 [] spelling = "upper" -> Upper(body)
                 [] spelling = "lower" -> Lower(body)
    /\ hash_seed' = seed
    /\ det_result' = <<>>
    /\ dpc' = "call"
    /\ UNCHANGED nonDetVars

\* the next post of the list is scored, in the same process
DetNextPost ==
    /\ dpc = "scored"
    /\ det_prev' = <<DetCall(title, body, hash_seed, det_result[1])>>
    /\ title' \in Titles
    /\ body' \in Bodies
    /\ det_result' = <<>>
    /\ dpc' = "call"
    /\ UNCHANGED hash_seed
    /\ UNCHANGED nonDetVars

NextDet ==
    \/ DetScore
    \/ \E spelling \in {"same", "upper", "lower"}, seed \in HashSeeds : DetAgain(spelling, seed)
    \/ DetNextPost

SpecDet == InitDet /\ [][NextDet]_vars


\* --- claims about the detector --------------------------------------------
\* the phrase occurs in the text when the letter case is ignored
Occurs(phrase, text) ==
    \E at \in 0..(Len(text) - Len(phrase)) :
        \A j \in 1..Len(phrase) : LowerChar(text[at + j]) = phrase[j]

OccurringPhrases(t, b) ==
    { PROBLEM_PHRASES[i] : i \in { n \in 1..Len(PROBLEM_PHRASES) :
                                    Occurs(PROBLEM_PHRASES[n], t \o <<" ">> \o b) } }

Elements(s) == { s[i] : i \in 1..Len(s) }

Scored == dpc = "scored"

ScoredTwice == dpc = "scored" /\ det_prev # <<>>

\* C16: scoring the same title and body twice, in the same run or in
\* different runs, returns identical records, with identical matched-phrase
\* lists and the identical top_phrases selection.
C16_Idempotence ==
    (ScoredTwice /\ det_prev[1].title = title /\ det_prev[1].body = body) =>
        det_result[1] = det_prev[1].result

\* four high-value phrases match; two runs of the program keep different
\* three of them as top_phrases
C16_DivergingRuns ==
    /\ ScoredTwice
    /\ det_prev[1].title = title /\ det_prev[1].body = body
    /\ det_result[1].phrase_count = 4
    /\ Elements(det_result[1].top_phrases) # Elements(det_prev[1].result.top_phrases)

\* within one process (one hash seed) the two records are identical
SameRunDeterminism ==
    (ScoredTwice /\ det_prev[1].title = title /\ det_prev[1].body = body
        /\ det_prev[1].hash_seed = hash_seed) =>
        det_result[1] = det_prev[1].result

\* C19: when no problem phrase occurs in the title and body (the text that is
\* scanned, letter case ignored), score_problem_indicator returns
\* has_problem False, score 0.0, severity "none" and an empty phrase list;
\* when at least one occurs it returns has_problem True and a severity of
\* low, medium or high.
C19_ZeroMatchesAndSeverity ==
    Scored =>
        IF OccurringPhrases(title, body) = {}
        THEN /\ det_result[1].has_problem = FALSE
             /\ det_result[1].score = 0
             /\ det_result[1].severity = "none"
             /\ det_result[1].phrases_found = <<>>
        ELSE /\ det_result[1].has_problem = TRUE
             /\ det_result[1].severity \in {"low", "medium", "high"}

\* a post without any phrase was scored, and after it one whose body holds
\* two phrases and whose title holds none
C19_Witness ==
    /\ ScoredTwice
    /\ det_prev[1].title # <<>>
    /\ OccurringPhrases(det_prev[1].title, det_prev[1].body) = {}
    /\ det_prev[1].result.has_problem = FALSE
    /\ OccurringPhrases(title, <<>>) = {}
    /\ Cardinality(OccurringPhrases(title, body)) = 2
    /\ det_result[1].has_problem = TRUE
    /\ det_result[1].severity = "medium"

CaseForms(c) == {c, LowerChar(c), UpperChar(c)}

\* the two texts differ at most in the letter case of their characters
SameUpToCase(a, b) ==
    /\ Len(a) = Len(b)
    /\ \A i \in 1..Len(a) : b[i] \in CaseForms(a[i]) \/ a[i] \in CaseForms(b[i])

SameVerdict(r1, r2) ==
    /\ r1.has_problem = r2.has_problem
    /\ r1.score = r2.score
    /\ r1.severity = r2.severity
    /\ Elements(r1.phrases_found) = Elements(r2.phrases_found)

\* C20: changing the letter case of characters of the title and body leaves
\* has_problem, score, severity and the set of matched phrases unchanged.
C20_CaseInsensitive ==
    (ScoredTwice /\ SameUpToCase(det_prev[1].title, title)
                 /\ SameUpToCase(det_prev[1].body, body)) =>
        SameVerdict(det_prev[1].result, det_result[1])

\* the title written with a long s matches nothing; in capitals it matches
C20_LongSInCapitals ==
    /\ ScoredTwice
    /\ \E i \in 1..Len(det_prev[1].title) : det_prev[1].title[i] = LongS
    /\ title = Upper(det_prev[1].title)
    /\ body = Upper(det_prev[1].body)
    /\ ~det_prev[1].result.has_problem
    /\ det_result[1].has_problem

IsAscii(text) == \A i \in 1..Len(text) : text[i] # LongS

\* for titles and bodies of ASCII characters the verdict does not depend on
\* the letter case
AsciiCaseInsensitive ==
    (ScoredTwice /\ SameUpToCase(det_prev[1].title, title)
                 /\ SameUpToCase(det_prev[1].body, body)
                 /\ IsAscii(det_prev[1].title) /\ IsAscii(title)) =>
        SameVerdict(det_prev[1].result, det_result[1])


(***************************************************************************)
(* The log buffer and the running flag (checked under SpecWeb).            *)
(***************************************************************************)
IsPrefix(s, t) == Len(s) <= Len(t) /\ SubSeq(t, 1, Len(s)) = s

\* C26: while a run is in progress the log buffer only grows: a step that
\* does not start a new run leaves every entry written since /start, the
\* initial entry of /start included, in its place, so that two successive
\* /logs reads see one sequence and an extension of it.
C26_AppendOnlyLog ==
    [][ (ExecutingWorkers # {} /\ Spawned' = Spawned)
            => IsPrefix(scraper_logs, scraper_logs') ]_vars

\* the thread's own scraper_logs.clear() has removed the entry of /start
C26_InitialEntryLost ==
    /\ ExecutingWorkers # {}
    /\ \A i \in 1..Len(scraper_logs) : scraper_logs[i].msg # "Initializing scraper..."

\* C28: whenever a worker thread is still executing, the running flag that
\* /logs reports is true.
C28_RunningFlagAccurate ==
    \A w \in WorkerIds : Executing(w) => scraper_running

\* /stop has finished its one-second sleep and cleared the running flag
\* while the worker is still inside its post loop
C28_FlagClearedUnderWorker ==
    /\ ~scraper_running
    /\ \E w \in WorkerIds : workers[w].pc \in {"loop", "call"}


\* --- the normalisation denominator ----------------------------------------
HighValue == Elements(high_value_phrases)

\* C27 as stated: when every matched phrase is a high-value phrase the
\* denominator max_possible is zero and the returned score is 0.5.
C27_DegenerateDefault ==
    (Scored /\ det_result[1].has_problem
        /\ Elements(det_result[1].phrases_found) \subseteq HighValue) =>
        det_result[1].score = 500

\* C27, amended: max_possible = |high_value_phrases| + (distinct matches -
\* high-value matches) is at least |high_value_phrases| = 9 for every input,
\* so the 0.5 default never applies: the score always is
\* round(min(score / max_possible, 1.0), 3), which is min(2k / 9, 1) rounded
\* when all k matched phrases are high-value.
C27_DenominatorPositive ==
    (Scored /\ det_result[1].has_problem) =>
        LET r == det_result[1]
            high == Cardinality(Elements(r.phrases_found) \cap HighValue)
            max_possible == Cardinality(HighValue) + (r.phrase_count - high)
            raw == 2 * high + (r.phrase_count - high)
            num == IF raw > max_possible THEN max_possible ELSE raw
        IN  /\ max_possible >= Cardinality(HighValue)
            /\ Cardinality(HighValue) > 0
            \* r.score is num / max_possible rounded to thousandths
            /\ 2 * (r.score * max_possible - 1000 * num) <= max_possible
            /\ 2 * (1000 * num - r.score * max_possible) <= max_possible

\* three phrases matched, all of them high-value: the score is 6/9, not 0.5
C27_Witness ==
    /\ Scored
    /\ det_result[1].has_problem
    /\ det_result[1].phrase_count = 3
    /\ Elements(det_result[1].phrases_found) \subseteq HighValue
    /\ det_result[1].score = 667


\* ==========================================================================
\* The detector's pre-filter: ProblemPhraseDetector.__init__,
\* contains_problem_phrase and filter_posts.
\* ==========================================================================
MaxFilterPosts == 2

\* __init__: self.phrases = PROBLEM_PHRASES.copy() extended by the custom ones
DetectorPhrases(custom) == PROBLEM_PHRASES \o custom

\* contains_problem_phrase: any(phrase in text_lower for phrase in
\* self.phrases); the text is lowered, the phrase is taken as it is
ContainsProblemPhrase(phrases, text) ==
    \E n \in 1..Len(phrases) :
        \E at \in 0..(Len(text) - Len(phrases[n])) :
            \A j \in 1..Len(phrases[n]) : LowerChar(text[at + j]) = phrases[n][j]

\* score_problem_indicator(title, body)["has_problem"] of that detector
HasProblem(phrases, t, b) == FindAllMatchesOf(phrases, FullText(t, b)) # <<>>

\* filter_posts: the posts whose title contains a phrase, each with the
\* problem_score entry the loop stores in it (its has_problem field)
FilterPosts(phrases, list) ==
    LET passes(post) == ContainsProblemPhrase(phrases, post.title)
        kept == SelectSeq(list, passes)
    IN  [i \in 1..Len(kept) |->
            [title |-> kept[i].title, body |-> kept[i].body,
             problem_score |-> HasProblem(phrases, kept[i].title, kept[i].body)]]

FilterTitles ==
    { <<>>,
      <<"I", " ", "w", "i", "s", "h">>,
      <<"l", "a", "p", "t", "o", "p">>,
      <<"R", "O", "I", " ", "g", "a", "p">> }

FilterBodies ==
    { <<>>,
      <<"s", "o", " ", "i", "n", "e", "f", "f", "i", "c", "i", "e", "n", "t">> }

FilterPostValues == [title : FilterTitles, body : FilterBodies]

\* custom_phrases of the constructor: none, or one written with capitals
CustomPhraseLists == { <<>>, << <<"R", "O", "I", " ", "G", "a", "p">> >> }

InitFilter ==
    /\ custom_phrases \in CustomPhraseLists
    /\ filter_input \in UNION { [1..n -> FilterPostValues] : n \in 0..MaxFilterPosts }
    /\ filter_output = <<>>
    /\ probe = <<>>
    /\ flpc = "call"
    /\ IdleButFilter

\* detector.filter_posts(posts)
FilterCall ==
    /\ flpc = "call"
    /\ filter_output' = <<FilterPosts(DetectorPhrases(custom_phrases), filter_input)>>
    /\ flpc' = "filtered"
    /\ UNCHANGED <<custom_phrases, filter_input, probe>>
    /\ UNCHANGED nonFilterVars

\* detector.contains_problem_phrase(text) and detector.find_all_matches(text)
\* on one text
ProbeText(text) ==
    /\ flpc = "filtered"
    /\ probe = <<>>
    /\ probe' = <<[text |-> text,
                   contains |-> ContainsProblemPhrase(DetectorPhrases(custom_phrases), text),
                   matches |-> FindAllMatchesOf(DetectorPhrases(custom_phrases), text)]>>
    /\ UNCHANGED <<custom_phrases, filter_input, filter_output, flpc>>
    /\ UNCHANGED nonFilterVars

NextFilter ==
    \/ FilterCall
    \/ \E text \in FilterTitles \cup FilterBodies : ProbeText(text)

SpecFilter == InitFilter /\ [][NextFilter]_vars

\* --- claims about the pre-filter ------------------------------------------
WithoutScore(list) ==
    [i \in 1..Len(list) |-> [title |-> list[i].title, body |-> list[i].body]]

ReportsProblem(post) ==
    HasProblem(DetectorPhrases(custom_phrases), post.title, post.body)

\* C29: filter_posts keeps, in input order, exactly the posts for which
\* score_problem_indicator(title, body) reports has_problem True, and
\* contains_problem_phrase(text) is true exactly when find_all_matches(text)
\* is not empty, for a detector with or without custom phrases.
C29_PreFilterConsistency ==
    /\ (flpc = "filtered") =>
          WithoutScore(filter_output[1]) = SelectSeq(filter_input, ReportsProblem)
    /\ (probe # <<>>) => (probe[1].contains <=> probe[1].matches # <<>>)

\* a detector without custom phrases drops a post whose phrase is in its body
C29_BodyMatchDropped ==
    /\ flpc = "filtered"
    /\ custom_phrases = <<>>
    /\ Len(filter_input) = 1
    /\ ReportsProblem(filter_input[1])
    /\ filter_output[1] = <<>>

\* a custom phrase with capitals: find_all_matches finds it,
\* contains_problem_phrase does not
C29_CustomPhraseMissed ==
    /\ probe # <<>>
    /\ ~probe[1].contains
    /\ probe[1].matches # <<>>

\* what does hold: every post that filter_posts keeps is one that
\* score_problem_indicator reports
KeptPostsHaveProblem ==
    (flpc = "filtered") =>
        \A i \in 1..Len(filter_output[1]) : filter_output[1][i].problem_score


\* ==========================================================================
\* The keyword categorizer: KeywordCategorizer.categorize and
\* categorize_with_details (src/categorizers/keyword_categorizer.py), called
\* per post after the detector by detect_problems_and_categorize (main.py).
\* Scores of a CategoryMatch are in thousandths.
\* ==========================================================================

\* U+00E9, in the keyword of 'Food & Hospitality' written with an accent
EAcute == "LATIN SMALL LETTER E WITH ACUTE"

CATEGORIES ==
    << [category |-> "Compliance & Data",
        keywords |-> <<
            <<"c", "o", "m", "p", "l", "i", "a", "n", "c", "e">>,
            <<"g", "d", "p", "r">>,
            <<"h", "i", "p", "a", "a">>,
            <<"l", "e", "g", "a", "l">>,
            <<"r", "e", "g", "u", "l", "a", "t", "i", "o", "n">>,
            <<"a", "u", "d", "i", "t">>,
            <<"d", "a", "t", "a", " ", "p", "r", "i", "v", "a", "c", "y">>,
            <<"s", "e", "c", "u", "r", "i", "t", "y">>,
            <<"c", "e", "r", "t", "i", "f", "i", "c", "a", "t", "i", "o", "n">>,
            <<"l", "i", "c", "e", "n", "s", "e">>,
            <<"p", "e", "r", "m", "i", "t">>,
            <<"t", "a", "x">>,
            <<"p", "a", "p", "e", "r", "w", "o", "r", "k">>,
            <<"d", "o", "c", "u", "m", "e", "n", "t", "a", "t", "i", "o", "n">>,
            <<"r", "e", "c", "o", "r", "d", " ", "k", "e", "e", "p", "i", "n", "g">>,
            <<"r", "e", "p", "o", "r", "t", "i", "n", "g">>,
            <<"s", "o", "x">>,
            <<"p", "c", "i">>,
            <<"d", "a", "t", "a", " ", "p", "r", "o", "t", "e", "c", "t", "i", "o", "n">>,
            <<"p", "r", "i", "v", "a", "c", "y", " ", "p", "o", "l", "i", "c", "y">>,
            <<"t", "e", "r", "m", "s", " ", "o", "f", " ", "s", "e", "r", "v", "i", "c", "e">>,
            <<"l", "i", "a", "b", "i", "l", "i", "t", "y">>,
            <<"i", "n", "s", "u", "r", "a", "n", "c", "e">>,
            <<"p", "e", "r", "m", "i", "t">>,
            <<"z", "o", "n", "i", "n", "g">>,
            <<"p", "e", "r", "m", "i", "t", "t", "i", "n", "g">> >>],
       [category |-> "Automated Hiring",
        keywords |-> <<
            <<"h", "i", "r", "i", "n", "g">>,
            <<"r", "e", "c", "r", "u", "i", "t">>,
            <<"r", "e", "c", "r", "u", "i", "t", "i", "n", "g">>,
            <<"j", "o", "b", " ", "p", "o", "s", "t", "i", "n", "g">>,
            <<"r", "e", "s", "u", "m", "e">>,
            <<"i", "n", "t", "e", "r", "v", "i", "e", "w">>,
            <<"c", "a", "n", "d", "i", "d", "a", "t", "e">>,
            <<"t", "a", "l", "e", "n", "t">>,
            <<"e", "m", "p", "l", "o", "y", "e", "e">>,
            <<"e", "m", "p", "l", "o", "y", "e", "e", "s">>,
            <<"o", "n", "b", "o", "a", "r", "d", "i", "n", "g">>,
            <<"s", "t", "a", "f", "f", "i", "n", "g">>,
            <<"h", "u", "m", "a", "n", " ", "r", "e", "s", "o", "u", "r", "c", "e", "s">>,
            <<"h", "r">>,
            <<"p", "a", "y", "r", "o", "l", "l">>,
            <<"b", "e", "n", "e", "f", "i", "t", "s">>,
            <<"h", "i", "r", "i", "n", "g", " ", "p", "r", "o", "c", "e", "s", "s">>,
            <<"r", "e", "c", "r", "u", "i", "t", "m", "e", "n", "t">>,
            <<"h", "e", "a", "d", "h", "u", "n", "t", "e", "r">>,
            <<"s", "t", "a", "f", "f">>,
            <<"w", "o", "r", "k", "f", "o", "r", "c", "e">>,
            <<"l", "a", "b", "o", "r">>,
            <<"c", "o", "n", "t", "r", "a", "c", "t", "o", "r">>,
            <<"j", "o", "b", " ", "d", "e", "s", "c", "r", "i", "p", "t", "i", "o", "n">>,
            <<"h", "i", "r", "i", "n", "g", " ", "m", "a", "n", "a", "g", "e", "r">>,
            <<"t", "a", "l", "e", "n", "t", " ", "a", "c", "q", "u", "i", "s", "i", "t", "i", "o", "n">> >>],
       [category |-> "Workflow Inefficiency",
        keywords |-> <<
            <<"w", "o", "r", "k", "f", "l", "o", "w">>,
            <<"p", "r", "o", "c", "e", "s", "s">>,
            <<"e", "f", "f", "i", "c", "i", "e", "n", "c", "y">>,
            <<"e", "f", "f", "i", "c", "i", "e", "n", "c", "i", "e", "s">>,
            <<"m", "a", "n", "u", "a", "l">>,
            <<"a", "u", "t", "o", "m", "a", "t", "e">>,
            <<"a", "u", "t", "o", "m", "a", "t", "e", "d">>,
            <<"a", "u", "t", "o", "m", "a", "t", "i", "o", "n">>,
            <<"r", "e", "p", "e", "t", "i", "t", "i", "v", "e">>,
            <<"t", "i", "m", "e", " ", "c", "o", "n", "s", "u", "m", "i", "n", "g">>,
            <<"b", "o", "t", "t", "l", "e", "n", "e", "c", "k">>,
            <<"s", "l", "o", "w">>,
            <<"t", "e", "d", "i", "o", "u", "s">>,
            <<"s", "t", "r", "e", "a", "m", "l", "i", "n", "e">>,
            <<"o", "p", "t", "i", "m", "i", "z", "e">>,
            <<"o", "p", "t", "i", "m", "i", "z", "a", "t", "i", "o", "n">>,
            <<"p", "r", "o", "d", "u", "c", "t", "i", "v", "i", "t", "y">>,
            <<"t", "a", "s", "k">>,
            <<"t", "a", "s", "k", "s">>,
            <<"i", "n", "t", "e", "g", "r", "a", "t", "i", "o", "n">>,
            <<"i", "n", "t", "e", "g", "r", "a", "t", "i", "o", "n", "s">>,
            <<"c", "o", "n", "n", "e", "c", "t", "i", "n", "g">>,
            <<"c", "o", "n", "n", "e", "c", "t">>,
            <<"s", "y", "n", "c">>,
            <<"s", "y", "n", "c", "h", "r", "o", "n", "i", "z", "e">>,
            <<"d", "a", "t", "a", " ", "e", "n", "t", "r", "y">>,
            <<"c", "o", "p", "y", " ", "p", "a", "s", "t", "e">>,
            <<"c", "o", "p", "y", "i", "n", "g">>,
            <<"p", "a", "s", "t", "i", "n", "g">> >>],
       [category |-> "Customer Management",
        keywords |-> <<
            <<"c", "u", "s", "t", "o", "m", "e", "r">>,
            <<"c", "l", "i", "e", "n", "t">>,
            <<"c", "l", "i", "e", "n", "t", "s">>,
            <<"r", "e", "l", "a", "t", "i", "o", "n", "s", "h", "i", "p">>,
            <<"c", "r", "m">>,
            <<"s", "u", "p", "p", "o", "r", "t">>,
            <<"c", "o", "m", "m", "u", "n", "i", "c", "a", "t", "i", "o", "n">>,
            <<"e", "m", "a", "i", "l">>,
            <<"e", "m", "a", "i", "l", "s">>,
            <<"f", "o", "l", "l", "o", "w", " ", "u", "p">>,
            <<"f", "o", "l", "l", "o", "w", "-", "u", "p">>,
            <<"l", "e", "a", "d">>,
            <<"l", "e", "a", "d", "s">>,
            <<"s", "a", "l", "e", "s", " ", "p", "i", "p", "e", "l", "i", "n", "e">>,
            <<"o", "n", "b", "o", "a", "r", "d", "i", "n", "g">>,
            <<"r", "e", "t", "e", "n", "t", "i", "o", "n">>,
            <<"s", "a", "t", "i", "s", "f", "a", "c", "t", "i", "o", "n">>,
            <<"f", "e", "e", "d", "b", "a", "c", "k">>,
            <<"r", "e", "v", "i", "e", "w">>,
            <<"r", "e", "v", "i", "e", "w", "s">>,
            <<"r", "e", "f", "e", "r", "r", "a", "l">>,
            <<"r", "e", "f", "e", "r", "r", "a", "l", "s">>,
            <<"c", "h", "u", "r", "n">>,
            <<"a", "c", "q", "u", "i", "s", "i", "t", "i", "o", "n">>,
            <<"a", "c", "c", "o", "u", "n", "t", " ", "m", "a", "n", "a", "g", "e", "m", "e", "n", "t">>,
            <<"c", "u", "s", "t", "o", "m", "e", "r", " ", "s", "u", "c", "c", "e", "s", "s">>,
            <<"s", "u", "p", "p", "o", "r", "t", " ", "t", "i", "c", "k", "e", "t">>,
            <<"h", "e", "l", "p", " ", "d", "e", "s", "k">> >>],
       [category |-> "Financial Management",
        keywords |-> <<
            <<"i", "n", "v", "o", "i", "c", "e">>,
            <<"i", "n", "v", "o", "i", "c", "i", "n", "g">>,
            <<"p", "a", "y", "m", "e", "n", "t">>,
            <<"p", "a", "y", "m", "e", "n", "t", "s">>,
            <<"b", "i", "l", "l", "i", "n", "g">>,
            <<"a", "c", "c", "o", "u", "n", "t", "i", "n", "g">>,
            <<"b", "u", "d", "g", "e", "t">>,
            <<"b", "u", "d", "g", "e", "t", "i", "n", "g">>,
            <<"e", "x", "p", "e", "n", "s", "e">>,
            <<"e", "x", "p", "e", "n", "s", "e", "s">>,
            <<"r", "e", "v", "e", "n", "u", "e">>,
            <<"p", "r", "o", "f", "i", "t">>,
            <<"c", "a", "s", "h", " ", "f", "l", "o", "w">>,
            <<"b", "o", "o", "k", "k", "e", "e", "p", "i", "n", "g">>,
            <<"f", "i", "n", "a", "n", "c", "e">>,
            <<"f", "i", "n", "a", "n", "c", "i", "a", "l">>,
            <<"c", "o", "s", "t">>,
            <<"c", "o", "s", "t", "s">>,
            <<"p", "r", "i", "c", "i", "n", "g">>,
            <<"q", "u", "o", "t", "e">>,
            <<"e", "s", "t", "i", "m", "a", "t", "e">>,
            <<"f", "i", "n", "a", "n", "c", "i", "a", "l">>,
            <<"t", "a", "x", "e", "s">>,
            <<"t", "a", "x", " ", "r", "e", "t", "u", "r", "n">>,
            <<"b", "o", "o", "k", "k", "e", "e", "p", "e", "r">>,
            <<"q", "u", "i", "c", "k", "b", "o", "o", "k", "s">>,
            <<"x", "e", "r", "o">>,
            <<"e", "x", "p", "e", "n", "s", "e", " ", "r", "e", "p", "o", "r", "t">>,
            <<"r", "e", "i", "m", "b", "u", "r", "s", "e", "m", "e", "n", "t">> >>],
       [category |-> "Project Management",
        keywords |-> <<
            <<"p", "r", "o", "j", "e", "c", "t">>,
            <<"p", "r", "o", "j", "e", "c", "t", "s">>,
            <<"d", "e", "a", "d", "l", "i", "n", "e">>,
            <<"d", "e", "a", "d", "l", "i", "n", "e", "s">>,
            <<"t", "i", "m", "e", "l", "i", "n", "e">>,
            <<"t", "i", "m", "e", "l", "i", "n", "e", "s">>,
            <<"m", "i", "l", "e", "s", "t", "o", "n", "e">>,
            <<"t", "a", "s", "k", " ", "m", "a", "n", "a", "g", "e", "m", "e", "n", "t">>,
            <<"t", "e", "a", "m", " ", "c", "o", "l", "l", "a", "b", "o", "r", "a", "t", "i", "o", "n">>,
            <<"c", "o", "l", "l", "a", "b", "o", "r", "a", "t", "e">>,
            <<"a", "s", "s", "i", "g", "n">>,
            <<"t", "r", "a", "c", "k", "i", "n", "g">>,
            <<"t", "r", "a", "c", "k">>,
            <<"p", "r", "o", "g", "r", "e", "s", "s">>,
            <<"k", "a", "n", "b", "a", "n">>,
            <<"a", "g", "i", "l", "e">>,
            <<"s", "c", "r", "u", "m">>,
            <<"s", "p", "r", "i", "n", "t">>,
            <<"d", "e", "l", "i", "v", "e", "r", "a", "b", "l", "e">>,
            <<"s", "t", "a", "k", "e", "h", "o", "l", "d", "e", "r">>,
            <<"s", "t", "a", "k", "e", "h", "o", "l", "d", "e", "r", "s">>,
            <<"g", "a", "n", "t", "t">>,
            <<"r", "e", "s", "o", "u", "r", "c", "e", " ", "a", "l", "l", "o", "c", "a", "t", "i", "o", "n">>,
            <<"c", "a", "p", "a", "c", "i", "t", "y", " ", "p", "l", "a", "n", "n", "i", "n", "g">>,
            <<"w", "o", "r", "k", "l", "o", "a", "d">>,
            <<"p", "r", "i", "o", "r", "i", "t", "i", "z", "a", "t", "i", "o", "n">>,
            <<"r", "o", "a", "d", "m", "a", "p">>,
            <<"p", "l", "a", "n", "n", "i", "n", "g">>,
            <<"s", "c", "h", "e", "d", "u", "l", "i", "n", "g">>,
            <<"c", "a", "l", "e", "n", "d", "a", "r">>,
            <<"r", "e", "m", "i", "n", "d", "e", "r">>,
            <<"r", "e", "m", "i", "n", "d", "e", "r", "s">> >>],
       [category |-> "Marketing & Sales",
        keywords |-> <<
            <<"m", "a", "r", "k", "e", "t", "i", "n", "g">>,
            <<"a", "d", "v", "e", "r", "t", "i", "s", "i", "n", "g">>,
            <<"s", "o", "c", "i", "a", "l", " ", "m", "e", "d", "i", "a">>,
            <<"s", "e", "o">>,
            <<"c", "o", "n", "t", "e", "n", "t">>,
            <<"c", "o", "n", "t", "e", "n", "t", "s">>,
            <<"l", "e", "a", "d", " ", "g", "e", "n", "e", "r", "a", "t", "i", "o", "n">>,
            <<"c", "o", "n", "v", "e", "r", "s", "i", "o", "n">>,
            <<"c", "o", "n", "v", "e", "r", "s", "i", "o", "n", "s">>,
            <<"c", "a", "m", "p", "a", "i", "g", "n">>,
            <<"b", "r", "a", "n", "d">>,
            <<"o", "u", "t", "r", "e", "a", "c", "h">>,
            <<"c", "o", "l", "d", " ", "c", "a", "l", "l">>,
            <<"c", "o", "l", "d", " ", "c", "a", "l", "l", "i", "n", "g">>,
            <<"e", "m", "a", "i", "l", " ", "m", "a", "r", "k", "e", "t", "i", "n", "g">>,
            <<"a", "n", "a", "l", "y", "t", "i", "c", "s">>,
            <<"m", "e", "t", "r", "i", "c", "s">>,
            <<"r", "o", "i">>,
            <<"r", "e", "t", "u", "r", "n", " ", "o", "n", " ", "i", "n", "v", "e", "s", "t", "m", "e", "n", "t">>,
            <<"f", "a", "c", "e", "b", "o", "o", "k">>,
            <<"i", "n", "s", "t", "a", "g", "r", "a", "m">>,
            <<"l", "i", "n", "k", "e", "d", "i", "n">>,
            <<"t", "w", "i", "t", "t", "e", "r">>,
            <<"t", "i", "k", "t", "o", "k">>,
            <<"y", "o", "u", "t", "u", "b", "e">>,
            <<"t", "e", "l", "e", "v", "i", "s", "i", "o", "n">>,
            <<"t", "v">>,
            <<"p", "r", "i", "n", "t", " ", "a", "d", "v", "e", "r", "t", "i", "s", "i", "n", "g">>,
            <<"g", "o", "o", "g", "l", "e", " ", "a", "d", "s">>,
            <<"m", "a", "r", "k", "e", "t", "i", "n", "g", " ", "a", "u", "t", "o", "m", "a", "t", "i", "o", "n">>,
            <<"c", "r", "m">>,
            <<"p", "i", "p", "e", "l", "i", "n", "e">>,
            <<"c", "l", "o", "s", "i", "n", "g", " ", "d", "e", "a", "l", "s">>,
            <<"s", "a", "l", "e", "s">>,
            <<"s", "e", "l", "l", "i", "n", "g">>,
            <<"p", "r", "o", "p", "o", "s", "a", "l">>,
            <<"p", "r", "o", "p", "o", "s", "a", "l", "s">> >>],
       [category |-> "Inventory & Operations",
        keywords |-> <<
            <<"i", "n", "v", "e", "n", "t", "o", "r", "y">>,
            <<"s", "t", "o", "c", "k">>,
            <<"s", "u", "p", "p", "l", "y", " ", "c", "h", "a", "i", "n">>,
            <<"l", "o", "g", "i", "s", "t", "i", "c", "s">>,
            <<"s", "h", "i", "p", "p", "i", "n", "g">>,
            <<"w", "a", "r", "e", "h", "o", "u", "s", "e">>,
            <<"o", "r", "d", "e", "r", " ", "m", "a", "n", "a", "g", "e", "m", "e", "n", "t">>,
            <<"p", "r", "o", "c", "u", "r", "e", "m", "e", "n", "t">>,
            <<"v", "e", "n", "d", "o", "r">>,
            <<"s", "u", "p", "p", "l", "i", "e", "r">>,
            <<"f", "u", "l", "f", "i", "l", "l", "m", "e", "n", "t">>,
            <<"t", "r", "a", "c", "k", "i", "n", "g">>,
            <<"t", "r", "a", "c", "k">>,
            <<"d", "e", "l", "i", "v", "e", "r", "y">>,
            <<"m", "a", "n", "u", "f", "a", "c", "t", "u", "r", "i", "n", "g">>,
            <<"p", "r", "o", "d", "u", "c", "t", "i", "o", "n">>,
            <<"a", "s", "s", "e", "m", "b", "l", "y">>,
            <<"c", "o", "m", "p", "o", "n", "e", "n", "t", "s">>,
            <<"p", "a", "r", "t", "s">>,
            <<"m", "a", "t", "e", "r", "i", "a", "l", "s">>,
            <<"o", "r", "d", "e", "r", " ", "f", "u", "l", "f", "i", "l", "l", "m", "e", "n", "t">>,
            <<"d", "r", "o", "p", "s", "h", "i", "p", "p", "i", "n", "g">>,
            <<"e", "c", "o", "m", "m", "e", "r", "c", "e">>,
            <<"o", "n", "l", "i", "n", "e", " ", "s", "t", "o", "r", "e">>,
            <<"p", "r", "o", "d", "u", "c", "t", " ", "c", "a", "t", "a", "l", "o", "g">>,
            <<"s", "k", "u">>,
            <<"b", "a", "r", "c", "o", "d", "e">>,
            <<"q", "r", " ", "c", "o", "d", "e">>,
            <<"i", "n", "v", "e", "n", "t", "o", "r", "y", " ", "m", "a", "n", "a", "g", "e", "m", "e", "n", "t">> >>],
       [category |-> "Technical & IT",
        keywords |-> <<
            <<"w", "e", "b", "s", "i", "t", "e">>,
            <<"w", "e", "b", "s", "i", "t", "e", "s">>,
            <<"d", "o", "m", "a", "i", "n">>,
            <<"h", "o", "s", "t", "i", "n", "g">>,
            <<"s", "e", "r", "v", "e", "r">>,
            <<"s", "e", "r", "v", "e", "r", "s">>,
            <<"a", "p", "i">>,
            <<"i", "n", "t", "e", "g", "r", "a", "t", "i", "o", "n">>,
            <<"i", "n", "t", "e", "g", "r", "a", "t", "i", "o", "n", "s">>,
            <<"s", "o", "f", "t", "w", "a", "r", "e">>,
            <<"t", "o", "o", "l">>,
            <<"t", "o", "o", "l", "s">>,
            <<"d", "a", "t", "a", "b", "a", "s", "e">>,
            <<"b", "a", "c", "k", "u", "p">>,
            <<"m", "i", "g", "r", "a", "t", "i", "o", "n">>,
            <<"p", "a", "s", "s", "w", "o", "r", "d">>,
            <<"p", "a", "s", "s", "w", "o", "r", "d", "s">>,
            <<"a", "u", "t", "h", "e", "n", "t", "i", "c", "a", "t", "i", "o", "n">>,
            <<"c", "l", "o", "u", "d">>,
            <<"c", "y", "b", "e", "r">>,
            <<"t", "e", "c", "h", "n", "i", "c", "a", "l", " ", "i", "s", "s", "u", "e">>,
            <<"b", "u", "g">>,
            <<"b", "u", "g", "s">>,
            <<"g", "l", "i", "t", "c", "h">>,
            <<"w", "e", "b", "s", "i", "t", "e", " ", "b", "u", "i", "l", "d", "e", "r">>,
            <<"w", "o", "r", "d", "p", "r", "e", "s", "s">>,
            <<"s", "h", "o", "p", "i", "f", "y">>,
            <<"h", "o", "s", "t">>,
            <<"d", "o", "m", "a", "i", "n", " ", "n", "a", "m", "e">>,
            <<"s", "s", "l">>,
            <<"c", "e", "r", "t", "i", "f", "i", "c", "a", "t", "e">>,
            <<"d", "n", "s">>,
            <<"r", "e", "d", "i", "r", "e", "c", "t">>,
            <<"p", "a", "g", "e", " ", "s", "p", "e", "e", "d">>,
            <<"l", "o", "a", "d", "i", "n", "g">>,
            <<"m", "o", "b", "i", "l", "e", " ", "a", "p", "p">>,
            <<"i", "o", "s">>,
            <<"a", "n", "d", "r", "o", "i", "d">>,
            <<"a", "p", "p", "l", "i", "c", "a", "t", "i", "o", "n">>,
            <<"a", "p", "p">>,
            <<"a", "p", "p", "s">>,
            <<"s", "o", "f", "t", "w", "a", "r", "e", " ", "a", "s", " ", "a", " ", "s", "e", "r", "v", "i", "c", "e">>,
            <<"s", "a", "a", "s">>,
            <<"s", "u", "b", "s", "c", "r", "i", "p", "t", "i", "o", "n">>,
            <<"l", "i", "c", "e", "n", "s", "i", "n", "g">>,
            <<"l", "i", "c", "e", "n", "s", "e">> >>],
       [category |-> "Real Estate & Property",
        keywords |-> <<
            <<"r", "e", "a", "l", " ", "e", "s", "t", "a", "t", "e">>,
            <<"p", "r", "o", "p", "e", "r", "t", "y">>,
            <<"p", "r", "o", "p", "e", "r", "t", "i", "e", "s">>,
            <<"t", "e", "n", "a", "n", "t">>,
            <<"t", "e", "n", "a", "n", "t", "s">>,
            <<"l", "a", "n", "d", "l", "o", "r", "d">>,
            <<"r", "e", "n", "t", "a", "l">>,
            <<"r", "e", "n", "t", "a", "l", "s">>,
            <<"l", "e", "a", "s", "e">>,
            <<"l", "e", "a", "s", "i", "n", "g">>,
            <<"m", "o", "r", "t", "g", "a", "g", "e">>,
            <<"h", "o", "m", "e">>,
            <<"h", "o", "m", "e", "s">>,
            <<"c", "o", "m", "m", "e", "r", "c", "i", "a", "l">>,
            <<"r", "e", "s", "i", "d", "e", "n", "t", "i", "a", "l">>,
            <<"i", "n", "v", "e", "s", "t", "m", "e", "n", "t", " ", "p", "r", "o", "p", "e", "r", "t", "y">>,
            <<"f", "l", "i", "p">>,
            <<"f", "l", "i", "p", "p", "i", "n", "g">>,
            <<"r", "e", "n", "o", "v", "a", "t", "i", "o", "n">>,
            <<"r", "e", "m", "o", "d", "e", "l">>,
            <<"c", "o", "n", "s", "t", "r", "u", "c", "t", "i", "o", "n">>,
            <<"b", "u", "i", "l", "d", "i", "n", "g">>,
            <<"l", "i", "s", "t", "i", "n", "g", "s">>,
            <<"m", "l", "s">>,
            <<"r", "e", "a", "l", "t", "o", "r">>,
            <<"b", "r", "o", "k", "e", "r">>,
            <<"r", "e", "a", "l", " ", "e", "s", "t", "a", "t", "e", " ", "a", "g", "e", "n", "t">>,
            <<"s", "h", "o", "w", "i", "n", "g", "s">>,
            <<"v", "i", "e", "w", "i", "n", "g", "s">> >>],
       [category |-> "Food & Hospitality",
        keywords |-> <<
            <<"r", "e", "s", "t", "a", "u", "r", "a", "n", "t">>,
            <<"r", "e", "s", "t", "a", "u", "r", "a", "n", "t", "s">>,
            <<"f", "o", "o", "d">>,
            <<"c", "a", "f", "e">>,
            <<"c", "a", "f", EAcute>>,
            <<"c", "o", "f", "f", "e", "e">>,
            <<"c", "a", "t", "e", "r", "i", "n", "g">>,
            <<"m", "e", "n", "u">>,
            <<"o", "r", "d", "e", "r", "i", "n", "g">>,
            <<"o", "n", "l", "i", "n", "e", " ", "o", "r", "d", "e", "r", "i", "n", "g">>,
            <<"d", "e", "l", "i", "v", "e", "r", "y">>,
            <<"t", "a", "k", "e", "o", "u", "t">>,
            <<"p", "i", "c", "k", "u", "p">>,
            <<"r", "e", "s", "e", "r", "v", "a", "t", "i", "o", "n", "s">>,
            <<"t", "a", "b", "l", "e", " ", "m", "a", "n", "a", "g", "e", "m", "e", "n", "t">>,
            <<"p", "o", "i", "n", "t", " ", "o", "f", " ", "s", "a", "l", "e">>,
            <<"p", "o", "s">>,
            <<"h", "o", "s", "p", "i", "t", "a", "l", "i", "t", "y">>,
            <<"h", "o", "t", "e", "l">>,
            <<"h", "o", "t", "e", "l", "s">>,
            <<"m", "o", "t", "e", "l">>,
            <<"a", "c", "c", "o", "m", "m", "o", "d", "a", "t", "i", "o", "n">>,
            <<"b", "o", "o", "k", "i", "n", "g">>,
            <<"g", "u", "e", "s", "t">>,
            <<"g", "u", "e", "s", "t", "s">>,
            <<"k", "i", "t", "c", "h", "e", "n">>,
            <<"c", "h", "e", "f">>,
            <<"c", "o", "o", "k", "i", "n", "g">>,
            <<"r", "e", "c", "i", "p", "e">>,
            <<"r", "e", "c", "i", "p", "e", "s">>,
            <<"i", "n", "v", "e", "n", "t", "o", "r", "y">>,
            <<"f", "o", "o", "d", " ", "c", "o", "s", "t">> >>],
       [category |-> "Health & Wellness",
        keywords |-> <<
            <<"h", "e", "a", "l", "t", "h">>,
            <<"h", "e", "a", "l", "t", "h", "c", "a", "r", "e">>,
            <<"m", "e", "d", "i", "c", "a", "l">>,
            <<"d", "o", "c", "t", "o", "r">>,
            <<"c", "l", "i", "n", "i", "c">>,
            <<"h", "o", "s", "p", "i", "t", "a", "l">>,
            <<"p", "a", "t", "i", "e", "n", "t">>,
            <<"p", "a", "t", "i", "e", "n", "t", "s">>,
            <<"w", "e", "l", "l", "n", "e", "s", "s">>,
            <<"f", "i", "t", "n", "e", "s", "s">>,
            <<"g", "y", "m">>,
            <<"w", "o", "r", "k", "o", "u", "t">>,
            <<"n", "u", "t", "r", "i", "t", "i", "o", "n">>,
            <<"d", "i", "e", "t">>,
            <<"s", "u", "p", "p", "l", "e", "m", "e", "n", "t">>,
            <<"s", "u", "p", "p", "l", "e", "m", "e", "n", "t", "s">>,
            <<"t", "h", "e", "r", "a", "p", "y">>,
            <<"m", "e", "n", "t", "a", "l", " ", "h", "e", "a", "l", "t", "h">>,
            <<"t", "e", "l", "e", "m", "e", "d", "i", "c", "i", "n", "e">>,
            <<"h", "e", "a", "l", "t", "h", " ", "i", "n", "s", "u", "r", "a", "n", "c", "e">>,
            <<"a", "p", "p", "o", "i", "n", "t", "m", "e", "n", "t">>,
            <<"s", "c", "h", "e", "d", "u", "l", "i", "n", "g">>,
            <<"b", "i", "l", "l", "i", "n", "g">>,
            <<"e", "l", "e", "c", "t", "r", "o", "n", "i", "c", " ", "h", "e", "a", "l", "t", "h", " ", "r", "e", "c", "o", "r", "d", "s">>,
            <<"e", "h", "r">>,
            <<"e", "m", "r">>,
            <<"p", "r", "e", "s", "c", "r", "i", "p", "t", "i", "o", "n">>,
            <<"p", "h", "a", "r", "m", "a", "c", "y">> >>],
       [category |-> "Education & Training",
        keywords |-> <<
            <<"e", "d", "u", "c", "a", "t", "i", "o", "n">>,
            <<"l", "e", "a", "r", "n", "i", "n", "g">>,
            <<"c", "o", "u", "r", "s", "e">>,
            <<"c", "o", "u", "r", "s", "e", "s">>,
            <<"t", "r", "a", "i", "n", "i", "n", "g">>,
            <<"t", "u", "t", "o", "r", "i", "a", "l">>,
            <<"t", "u", "t", "o", "r", "i", "a", "l", "s">>,
            <<"c", "l", "a", "s", "s">>,
            <<"c", "l", "a", "s", "s", "e", "s">>,
            <<"s", "t", "u", "d", "e", "n", "t">>,
            <<"s", "t", "u", "d", "e", "n", "t", "s">>,
            <<"t", "e", "a", "c", "h", "e", "r">>,
            <<"t", "e", "a", "c", "h", "e", "r", "s">>,
            <<"s", "c", "h", "o", "o", "l">>,
            <<"s", "c", "h", "o", "o", "l", "s">>,
            <<"u", "n", "i", "v", "e", "r", "s", "i", "t", "y">>,
            <<"c", "o", "l", "l", "e", "g", "e">>,
            <<"u", "n", "i", "v", "e", "r", "s", "i", "t", "y">>,
            <<"c", "u", "r", "r", "i", "c", "u", "l", "u", "m">>,
            <<"s", "y", "l", "l", "a", "b", "u", "s">>,
            <<"a", "s", "s", "i", "g", "n", "m", "e", "n", "t">>,
            <<"h", "o", "m", "e", "w", "o", "r", "k">>,
            <<"g", "r", "a", "d", "i", "n", "g">>,
            <<"l", "m", "s">>,
            <<"l", "e", "a", "r", "n", "i", "n", "g", " ", "m", "a", "n", "a", "g", "e", "m", "e", "n", "t">>,
            <<"e", "l", "e", "a", "r", "n", "i", "n", "g">>,
            <<"o", "n", "l", "i", "n", "e", " ", "c", "o", "u", "r", "s", "e">>,
            <<"c", "e", "r", "t", "i", "f", "i", "c", "a", "t", "i", "o", "n">>,
            <<"c", "e", "r", "t", "i", "f", "i", "c", "a", "t", "e">>,
            <<"w", "o", "r", "k", "s", "h", "o", "p">>,
            <<"w", "e", "b", "i", "n", "a", "r">>,
            <<"k", "n", "o", "w", "l", "e", "d", "g", "e", " ", "b", "a", "s", "e">>,
            <<"h", "e", "l", "p", " ", "c", "e", "n", "t", "e", "r">> >>],
       [category |-> "General Business",
        keywords |-> <<
            <<"b", "u", "s", "i", "n", "e", "s", "s">>,
            <<"b", "u", "s", "i", "n", "e", "s", "s", "e", "s">>,
            <<"c", "o", "m", "p", "a", "n", "y">>,
            <<"c", "o", "m", "p", "a", "n", "i", "e", "s">>,
            <<"s", "t", "a", "r", "t", "u", "p">>,
            <<"s", "t", "a", "r", "t", "u", "p", "s">>,
            <<"e", "n", "t", "r", "e", "p", "r", "e", "n", "e", "u", "r">>,
            <<"e", "n", "t", "r", "e", "p", "r", "e", "n", "e", "u", "r", "s">>,
            <<"s", "m", "a", "l", "l", " ", "b", "u", "s", "i", "n", "e", "s", "s">>,
            <<"o", "w", "n", "e", "r">>,
            <<"o", "w", "n", "e", "r", "s">>,
            <<"m", "a", "n", "a", "g", "e", "r">>,
            <<"m", "a", "n", "a", "g", "e", "m", "e", "n", "t">>,
            <<"o", "p", "e", "r", "a", "t", "e">>,
            <<"o", "p", "e", "r", "a", "t", "i", "n", "g">>,
            <<"r", "u", "n", "n", "i", "n", "g", " ", "a", " ", "b", "u", "s", "i", "n", "e", "s", "s">>,
            <<"g", "r", "o", "w", " ", "b", "u", "s", "i", "n", "e", "s", "s">>,
            <<"s", "c", "a", "l", "e", " ", "b", "u", "s", "i", "n", "e", "s", "s">>,
            <<"r", "e", "v", "e", "n", "u", "e">>,
            <<"i", "n", "c", "o", "m", "e">>,
            <<"e", "x", "p", "e", "n", "s", "e">> >>] >>

CatTitles ==
    { <<>>,
      <<"I", " ", "w", "i", "s", "h", " ", "t", "h", "e", "r", "e", " ", "w", "a", "s", " ", "a", " ", "b", "e", "t", "t", "e", "r", " ", "w", "a", "y", " ", "t", "o", " ", "a", "u", "t", "o", "m", "a", "t", "e", " ", "i", "n", "v", "o", "i", "c", "i", "n", "g">>,
      <<"i", "n", "v", "o", "i", "c", "e", " ", "w", "o", "r", "k", "f", "l", "o", "w">>,
      <<"I", "n", "v", "o", "i", "c", "e", ",", " ", "i", "n", "v", "o", "i", "c", "e", ",", " ", "i", "n", "v", "o", "i", "c", "e", ":", " ", "w", "o", "r", "k", "f", "l", "o", "w", " ", "p", "r", "o", "c", "e", "s", "s">>,
      <<"C", "a", "s", "h", " ", "f", "l", "o", "w">> }

CatBodies ==
    { <<>>,
      <<"M", "a", "n", "u", "a", "l", " ", "p", "r", "o", "c", "e", "s", "s", " ", "i", "s", " ", "s", "o", " ", "f", "r", "u", "s", "t", "r", "a", "t", "i", "n", "g", " ", "a", "n", "d", " ", "I", " ", "w", "a", "s", "t", "e", " ", "s", "o", " ", "m", "u", "c", "h", " ", "t", "i", "m", "e">>,
      <<"s", "o", " ", "i", "n", "e", "f", "f", "i", "c", "i", "e", "n", "t">>,
      <<"h", "r">> }

\* content = f"{title} {body}".lower()
Content(t, b) == Lower(t \o <<" ">> \o b)

\* the keyword is the whole content: a mutation of the substring test
KeywordIsContent(keyword, content) == keyword = content

\* keyword in content
KeywordIn(keyword, content) ==
    \E at \in 0..(Len(content) - Len(keyword)) :
        \A j \in 1..Len(keyword) : content[at + j] = keyword[j]

\* 2.0 if ' ' in keyword else 1.0
KeywordWeight(keyword) ==
    IF \E j \in 1..Len(keyword) : keyword[j] = " " THEN 2 ELSE 1

\* the scores and matched_keywords dictionaries of categorize (all_scores of
\* categorize_with_details): one entry per category with a keyword in the
\* content, in the order of the category dictionary
CategoryScores(content) ==
    LET found(keywords) ==
            LET occurs(keyword) == KeywordIn(keyword, content)
            IN  SelectSeq(keywords, occurs)
        weight_sum(keywords) ==
            LET upto[n \in 0..Len(keywords)] ==
                    IF n = 0 THEN 0 ELSE upto[n - 1] + KeywordWeight(keywords[n])
            IN  upto[Len(keywords)]
        entries == [i \in 1..Len(CATEGORIES) |->
                       [category |-> CATEGORIES[i].category,
                        score |-> weight_sum(found(CATEGORIES[i].keywords)),
                        keywords |-> found(CATEGORIES[i].keywords)]]
        matched(e) == e.keywords # <<>>
    IN  SelectSeq(entries, matched)

MaxScore(scores) ==
    CHOOSE m \in {scores[i].score : i \in 1..Len(scores)} :
        \A i \in 1..Len(scores) : scores[i].score <= m

\* the last entry with the highest score: a mutation of the selection
LastBest(scores) ==
    CHOOSE i \in 1..Len(scores) :
        /\ scores[i].score = MaxScore(scores)
        /\ \A j \in (i + 1)..Len(scores) : scores[j].score # MaxScore(scores)

\* max(scores, key=scores.get): the first entry, in dictionary order, with
\* the highest score
FirstBest(scores) ==
    CHOOSE i \in 1..Len(scores) :
        /\ scores[i].score = MaxScore(scores)
        /\ \A j \in 1..(i - 1) : scores[j].score # MaxScore(scores)

\* a CategoryMatch without a label: a mutation of the default
UnlabelledMatch ==
    [category |-> "", score |-> 100, matched_keywords |-> <<>>]

\* the CategoryMatch returned when no keyword matches (lines 185-190)
DefaultMatch ==
    [category |-> "General Business", score |-> 100, matched_keywords |-> <<>>]

\* KeywordCategorizer.categorize
Categorize(t, b) ==
    LET scores == CategoryScores(Content(t, b))
        best == scores[FirstBest(scores)]
        max_score == MaxScore(scores)
    IN  IF scores = <<>> THEN DefaultMatch
        ELSE [category |-> best.category,
              score |-> IF max_score > 0 THEN RoundMilli(best.score, max_score) ELSE 500,
              matched_keywords |-> best.keywords]

\* sorted(all_scores.items(), key=score, reverse=True): a stable sort, so
\* entries of equal score keep their dictionary order
RECURSIVE SortedScores(_)
SortedScores(scores) ==
    IF scores = <<>> THEN <<>>
    ELSE LET i == FirstBest(scores)
         IN  <<scores[i]>> \o
             SortedScores(SubSeq(scores, 1, i - 1) \o SubSeq(scores, i + 1, Len(scores)))

\* KeywordCategorizer.categorize_with_details
CategorizeWithDetails(t, b) ==
    LET all_scores == CategoryScores(Content(t, b))
        sorted_scores == SortedScores(all_scores)
        primary_score == sorted_scores[1].score
        margin == primary_score - sorted_scores[2].score
        confidence ==
            IF Len(sorted_scores) > 1
            THEN IF margin > 3 THEN "high" ELSE IF margin > 1 THEN "medium" ELSE "low"
            ELSE IF primary_score > 3 THEN "high" ELSE "medium"
        matches[n \in 0..Len(all_scores)] ==
            IF n = 0 THEN 0 ELSE matches[n - 1] + Len(all_scores[n].keywords)
    IN  IF all_scores = <<>>
        THEN [primary_category |-> "General Business", all_scores |-> <<>>,
              total_matches |-> 0, categorization_confidence |-> "low"]
        ELSE [primary_category |-> sorted_scores[1].category,
              all_scores |-> sorted_scores,
              total_matches |-> matches[Len(all_scores)],
              categorization_confidence |-> confidence]

InitCat ==
    /\ cat_title \in CatTitles
    /\ cat_body \in CatBodies
    /\ cat_seed \in HashSeeds
    /\ problem_result = <<>>
    /\ category_result = <<>>
    /\ details_result = <<>>
    /\ cat_prev = <<>>
    /\ catpc = "detect"
    /\ IdleButCat

\* problem_detector.score_problem_indicator(post.title, post.body)
CatDetect ==
    /\ catpc = "detect"
    /\ problem_result' = <<ScoreProblemIndicator(cat_title, cat_body, cat_seed)>>
    /\ catpc' = "categorize"
    /\ UNCHANGED <<cat_title, cat_body, cat_seed, category_result, details_result, cat_prev>>
    /\ UNCHANGED nonCatVars

\* categorizer.categorize(post.title, post.body)
CatCategorize ==
    /\ catpc = "categorize"
    /\ category_result' = <<Categorize(cat_title, cat_body)>>
    /\ catpc' = "details"
    /\ UNCHANGED <<cat_title, cat_body, cat_seed, problem_result, details_result, cat_prev>>
    /\ UNCHANGED nonCatVars

\* categorizer.categorize_with_details(post.title, post.body)
CatDetails ==
    /\ catpc = "details"
    /\ details_result' = <<CategorizeWithDetails(cat_title, cat_body)>>
    /\ catpc' = "done"
    /\ UNCHANGED <<cat_title, cat_body, cat_seed, problem_result, category_result, cat_prev>>
    /\ UNCHANGED nonCatVars

\* the same post again in another run of the program
CatRunAgain(seed) ==
    /\ catpc = "done"
    /\ cat_prev = <<>>
    /\ cat_prev' = <<[title |-> cat_title, body |-> cat_body,
                      category |-> category_result[1].category]>>
    /\ cat_seed' = seed
    /\ problem_result' = <<>>
    /\ category_result' = <<>>
    /\ details_result' = <<>>
    /\ catpc' = "detect"
    /\ UNCHANGED <<cat_title, cat_body>>
    /\ UNCHANGED nonCatVars

NextCat ==
    \/ CatDetect
    \/ CatCategorize
    \/ CatDetails
    \/ \E seed \in HashSeeds : CatRunAgain(seed)

SpecCat == InitCat /\ [][NextCat]_vars


\* --- claims about the categorizer -----------------------------------------
ScenarioTitle ==
    <<"I", " ", "w", "i", "s", "h", " ", "t", "h", "e", "r", "e", " ", "w", "a", "s", " ", "a", " ", "b", "e", "t", "t", "e", "r", " ", "w", "a", "y", " ", "t", "o", " ", "a", "u", "t", "o", "m", "a", "t", "e", " ", "i", "n", "v", "o", "i", "c", "i", "n", "g">>

ScenarioBody ==
    <<"M", "a", "n", "u", "a", "l", " ", "p", "r", "o", "c", "e", "s", "s", " ", "i", "s", " ", "s", "o", " ", "f", "r", "u", "s", "t", "r", "a", "t", "i", "n", "g", " ", "a", "n", "d", " ", "I", " ", "w", "a", "s", "t", "e", " ", "s", "o", " ", "m", "u", "c", "h", " ", "t", "i", "m", "e">>

Categorized == category_result # <<>>

\* C21: for the title 'I wish there was a better way to automate invoicing'
\* and the body 'Manual process is so frustrating and I waste so much time'
\* the detector returns has_problem True with severity medium or high, and
\* the classifier returns 'Workflow Inefficiency' or 'Financial Management',
\* the same one on every run.
C21_Scenario ==
    (catpc = "done" /\ cat_title = ScenarioTitle /\ cat_body = ScenarioBody) =>
        /\ problem_result[1].has_problem = TRUE
        /\ problem_result[1].severity \in {"medium", "high"}
        /\ category_result[1].category \in {"Workflow Inefficiency", "Financial Management"}
        /\ (cat_prev # <<>>) => category_result[1].category = cat_prev[1].category

\* the scenario was run twice, the second time in a process with another
\* hash seed
C21_Witness ==
    /\ catpc = "done"
    /\ cat_title = ScenarioTitle /\ cat_body = ScenarioBody
    /\ cat_prev # <<>>
    /\ cat_seed # 0
    /\ problem_result[1].severity = "high"
    /\ category_result[1].category = "Workflow Inefficiency"

CategoryNames == { CATEGORIES[i].category : i \in 1..Len(CATEGORIES) }

\* the keywords of category i that occur in the title and body
OccurringKeywords(i) ==
    { n \in 1..Len(CATEGORIES[i].keywords) :
        Occurs(CATEGORIES[i].keywords[n], cat_title \o <<" ">> \o cat_body) }

\* C22: categorize returns a non-empty label of the category set, which
\* includes 'General Business'; when no keyword of any category occurs in
\* the text it returns 'General Business' with score 0.1 and no matched
\* keywords.
C22_LabelFromCategorySet ==
    Categorized =>
        /\ category_result[1].category # ""
        /\ category_result[1].category \in CategoryNames
        /\ "General Business" \in CategoryNames
        /\ (\A i \in 1..Len(CATEGORIES) : OccurringKeywords(i) = {}) =>
              /\ category_result[1].category = "General Business"
              /\ category_result[1].score = 100
              /\ category_result[1].matched_keywords = <<>>

\* a text that is not empty and holds no keyword was categorized
C22_Witness ==
    /\ Categorized
    /\ cat_body # <<>>
    /\ \A i \in 1..Len(CATEGORIES) : OccurringKeywords(i) = {}
    /\ category_result[1].category = "General Business"
    /\ category_result[1].score = 100

\* the raw score of category i: the weights of its matching keywords
RawScore(i) ==
    LET keywords == CATEGORIES[i].keywords
        upto[n \in 0..Len(keywords)] ==
            IF n = 0 THEN 0
            ELSE upto[n - 1] + (IF Occurs(keywords[n], cat_title \o <<" ">> \o cat_body)
                                THEN KeywordWeight(keywords[n]) ELSE 0)
    IN  upto[Len(keywords)]

Declared(name) == CHOOSE i \in 1..Len(CATEGORIES) : CATEGORIES[i].category = name

\* C23: the category returned by categorize has the highest raw score of all
\* categories, and of several categories with that score the one declared
\* first; categorize_with_details names the same category as
\* primary_category.
C23_TieBreak ==
    (catpc = "done") =>
        /\ details_result[1].primary_category = category_result[1].category
        /\ \A raw \in {[i \in 1..Len(CATEGORIES) |-> RawScore(i)]} :
              (\E i \in 1..Len(CATEGORIES) : raw[i] > 0) =>
                  LET w == Declared(category_result[1].category)
                  IN  \A i \in 1..Len(CATEGORIES) :
                         /\ raw[i] <= raw[w]
                         /\ (i < w) => raw[i] < raw[w]

\* two categories share the highest raw score, and the winner is not the
\* category whose keyword comes first in the text
C23_Witness ==
    /\ catpc = "done"
    /\ category_result[1].category = "Workflow Inefficiency"
    /\ details_result[1].primary_category = "Workflow Inefficiency"
    /\ RawScore(Declared("Workflow Inefficiency")) = 2
    /\ RawScore(Declared("Financial Management")) = 2

\* the number of places of the text at which the keyword starts
Occurrences(keyword, text) ==
    Cardinality({ at \in 0..(Len(text) - Len(keyword)) :
                    \A j \in 1..Len(keyword) : LowerChar(text[at + j]) = keyword[j] })

\* the occurrence-weighted score of category i: for each of its keywords,
\* occurrences times weight
OccurrenceScore(i) ==
    LET keywords == CATEGORIES[i].keywords
        upto[n \in 0..Len(keywords)] ==
            IF n = 0 THEN 0
            ELSE upto[n - 1] + Occurrences(keywords[n], cat_title \o <<" ">> \o cat_body)
                                  * KeywordWeight(keywords[n])
    IN  upto[Len(keywords)]

\* C24: the raw score of a category is the sum over its keywords occurring in
\* the text of occurrences times weight (2 for a multi-word keyword, 1 for a
\* single word): a keyword occurring k times contributes k times its weight.
C24_OccurrenceWeighted ==
    (catpc = "done") =>
        \A n \in 1..Len(details_result[1].all_scores) :
            LET e == details_result[1].all_scores[n]
            IN  e.score = OccurrenceScore(Declared(e.category))

\* 'invoice' occurs three times and counts once
C24_CountedOnce ==
    /\ catpc = "done"
    /\ \E n \in 1..Len(details_result[1].all_scores) :
          LET e == details_result[1].all_scores[n]
          IN  /\ e.category = "Financial Management"
              /\ e.score = 1
              /\ OccurrenceScore(Declared(e.category)) = 3

\* what the code computes: each matching keyword counts once
PresenceWeighted ==
    (catpc = "done") =>
        \A n \in 1..Len(details_result[1].all_scores) :
            LET e == details_result[1].all_scores[n]
            IN  e.score = RawScore(Declared(e.category))


(***************************************************************************)
(* ConfidenceScorer.get_confidence_breakdown.  Values are integers in      *)
(* units of 1/10000, as in the confidence arithmetic above.  A text is     *)
(* described by what the scorer reads of it: the lengths of title and      *)
(* body and the tests of _assess_text_quality.                             *)
(***************************************************************************)
Max(a, b) == IF a >= b THEN a ELSE b

\* the texts of three posts: no text at all, a short title in capitals
\* without a body, and a long post with sentences and a link
BreakdownTexts ==
    { [title_len |-> 0, title_first_upper |-> FALSE, title_isupper |-> FALSE,
       body_len |-> 0, body_has_dot |-> FALSE, body_has_link |-> FALSE,
       body_exclamations |-> 0],
      [title_len |-> 2, title_first_upper |-> TRUE, title_isupper |-> TRUE,
       body_len |-> 0, body_has_dot |-> FALSE, body_has_link |-> FALSE,
       body_exclamations |-> 0],
      [title_len |-> 52, title_first_upper |-> TRUE, title_isupper |-> FALSE,
       body_len |-> 1200, body_has_dot |-> TRUE, body_has_link |-> TRUE,
       body_exclamations |-> 3] }

\* a post's score as RedditPost carries it: int(sub.get("score", 0))
Upvotes == {-200, -4, 0, 46, 500}

\* int(sub.get("num_comments", 0))
CommentCounts == {0, 12}

\* ConfidenceScorer._assess_text_quality
AssessTextQuality(t) ==
    LET quality ==
            5000
            + (IF t.title_len > 0 /\ t.title_first_upper THEN 1000 ELSE 0)
            + (IF t.title_len > 10 THEN 1000 ELSE 0)
            + (IF t.body_len > 50 THEN 1000 ELSE 0)
            + (IF t.body_len > 0 /\ t.body_has_dot THEN 1000 ELSE 0)
            - (IF t.title_isupper THEN 2000 ELSE 0)
            + (IF t.body_has_link THEN 500 ELSE 0)
            - (IF t.body_exclamations > 2 THEN 1000 ELSE 0)
    IN  Max(0, Min(10000, quality))

\* round(x, 3) on a value in units of 1/10000
Round3(x) ==
    LET q == x \div 10
        r == x % 10
    IN  IF r > 5 \/ (r = 5 /\ q % 2 = 1) THEN (q + 1) * 10 ELSE q * 10

\* the arguments of get_confidence_breakdown as main.py passes them
BreakdownArguments ==
    [ text : BreakdownTexts, n_keywords : {0, 3, 7},
      category_score : {1000, 5000, 10000}, upvotes : Upvotes,
      num_comments : CommentCounts,
      problem_score : {<<>>, <<0>>, <<7000>>} ]

\* the factors of a call, lines 179-215
BreakdownFactors(a) ==
    Factors([ n_keywords |-> a.n_keywords,
              content_length |-> a.text.title_len + a.text.body_len,
              category_score |-> a.category_score,
              upvotes |-> a.upvotes, num_comments |-> a.num_comments,
              text_quality |-> AssessTextQuality(a.text),
              problem_score |-> a.problem_score ])

\* ConfidenceScorer.get_confidence_breakdown
GetConfidenceBreakdown(a) ==
    LET factors == BreakdownFactors(a)
        overall == WeightedAverage(factors)
    IN  [ overall_score |-> Round3(overall),
          keyword_confidence |-> Round3(factors.keyword_match),
          content_quality_confidence |-> Round3(factors.content_length),
          engagement_confidence |-> Round3(factors.engagement),
          category_confidence |-> Round3(a.category_score),
          factors |-> [n \in FactorNames |-> Round3(factors[n])] ]

InitBreakdown ==
    /\ bd_args \in BreakdownArguments
    /\ bd_breakdown = <<>>
    /\ bdpc = "call"
    /\ IdleButBreakdown

\* main.py lines 206-216: scorer.get_confidence_breakdown(...)
BreakdownCall ==
    /\ bdpc = "call"
    /\ bd_breakdown' = <<GetConfidenceBreakdown(bd_args)>>
    /\ bdpc' = "returned"
    /\ UNCHANGED bd_args
    /\ UNCHANGED nonBreakdownVars

NextBreakdown == BreakdownCall

SpecBreakdown == InitBreakdown /\ [][NextBreakdown]_vars

(***************************************************************************)
(* Properties of the breakdown (checked under SpecBreakdown).              *)
(***************************************************************************)
\* the numbers of [0, 1]
UnitInterval == 0..10000

\* C25: for every text, category score in [0,1], keyword list, problem score
\* in [0,1] and every integer upvote value and comment count,
\* get_confidence_breakdown returns an overall_score and six factor values
\* that all lie in [0,1].
C25_BreakdownInUnitInterval ==
    (bdpc = "returned") =>
        /\ bd_breakdown[1].overall_score \in UnitInterval
        /\ \A n \in FactorNames : bd_breakdown[1].factors[n] \in UnitInterval

\* a post with a negative score has been scored, and its overall_score is
\* below 0
C25_NegativeScoreScored ==
    /\ bdpc = "returned"
    /\ bd_args.upvotes < 0
    /\ bd_breakdown[1].overall_score < 0

\* with upvotes + 2 * num_comments >= 0 the values do lie in [0, 1]
BreakdownInUnitIntervalFromZero ==
    (bdpc = "returned" /\ bd_args.upvotes + 2 * bd_args.num_comments >= 0) =>
        /\ bd_breakdown[1].overall_score \in UnitInterval
        /\ \A n \in FactorNames : bd_breakdown[1].factors[n] \in UnitInterval


(***************************************************************************)
(* Range of the final confidence (checked under SpecCoord).                *)
(***************************************************************************)
\* the confidence_score of emitted post n is a number: the web worker stores
\* the provider's value as it came, a number or not
ConfidenceIsNumber(n) ==
    ~ /\ mode = "web"
      /\ n <= Len(outcomes)
      /\ outcomes[n].kind = "analysis_nonnumeric"

\* C30: for every post emitted by the pipeline and every decodable provider
\* response, whatever confidence_score it carries, the post's final
\* confidence_score is a number in [0,1].
C30_BlendedConfidenceBound ==
    \A n \in 1..Len(analyzed_posts) :
        /\ ConfidenceIsNumber(n)
        /\ analyzed_posts[n].confidence_score \in UnitInterval

\* analyze_with_ai has blended a provider confidence above 1 into a post
C30_BlendAboveOne ==
    /\ mode = "cli"
    /\ \E n \in 1..Len(outcomes) :
           /\ outcomes[n].kind = "analysis"
           /\ outcomes[n].confidence > 10000
           /\ analyzed_posts[n].confidence_score > 10000

\* with provider confidences that are numbers of [0,1] the final confidence
\* is a number of [0,1]
ConfidenceBoundForUnitAnswers ==
    (\A n \in 1..Len(outcomes) :
         /\ outcomes[n].kind # "analysis_nonnumeric"
         /\ (outcomes[n].kind = "analysis") =>
                outcomes[n].confidence \in UnitInterval)
    => \A n \in 1..Len(analyzed_posts) :
           analyzed_posts[n].confidence_score \in UnitInterval

=============================================================================
